---- MODULE Spec2Model ----
(***************************************************************************)
(* Model of the Set command family of src/server/set_family.cc: the two    *)
(* set encodings (intset / FlatSet), the shard-local operations OpAdd,     *)
(* OpRem, OpPop, OpUnion, OpDiff, OpInter, the SMOVE two-hop Mover, the    *)
(* *STORE commands and the fan-in combiners.                               *)
(*                                                                         *)
(* Byte strings are sequences of one-character strings, so that parsing    *)
(* (string2ll) and formatting (FastIntToBuffer / StrCat) are computed and  *)
(* not assumed to be inverse of each other.                                *)
(*                                                                         *)
(* A value that a definition uses more than once is bound as the parameter *)
(* of a local operator (LET F(r) == ... IN F(e)), so that it is evaluated  *)
(* once.                                                                   *)
(***************************************************************************)
EXTENDS Integers, Sequences, FiniteSets, TLC

(***************************************************************************)
(* Bounds of the model.                                                    *)
(***************************************************************************)
MaxVals == 1        \* longest member list of one SADD / SREM in Spec
MaxKeyVals == 2     \* longest member list of one SADD / SREM in KeySpec
MaxCount == 3       \* largest SPOP count
MaxKeys == 2        \* longest key list of SUNION / SINTER / SDIFF
IntsetCfg == 1      \* server.set_max_intset_entries in Spec and TxSpec
KeyIntsetCfg == 2   \* server.set_max_intset_entries in KeySpec

\* shard_set()->size() is 2
Shards == {0, 1}
NumShards == Cardinality(Shards)
Keys == {"a", "b"}

\* The members commands are tried with: "2", "10" (integers whose numeric and
\* lexicographic orders differ), "-7" and "01" (digits, but not canonical).
S2 == <<"2">>
S10 == <<"1", "0">>
SNeg7 == <<"-", "7">>
S01 == <<"0", "1">>
Vals == {S2, S10, S01}
KeyVals == {S2, S10, SNeg7, S01}

\* 1 << 16, the clamp of IntsetAddSafe
kMaxIntsetClamp == 65536

Range(s) == {s[i] : i \in 1..Len(s)}

(***************************************************************************)
(* OpStatus / OpResult.  value() of a result that is not OK is the         *)
(* default-constructed value, as OpResult::value() returns v_ unchecked.   *)
(***************************************************************************)
OK == "OK"
KEY_NOTFOUND == "KEY_NOTFOUND"
WRONG_TYPE == "WRONG_TYPE"
SKIPPED == "SKIPPED"
INVALID_INT == "INVALID_INT"   \* kInvalidIntErr

(***************************************************************************)
(* redis/util.c string2ll and absl FastIntToBuffer / StrCat.               *)
(***************************************************************************)
DigitChars == <<"0", "1", "2", "3", "4", "5", "6", "7", "8", "9">>
IsDigit(c) == \E i \in 1..10 : DigitChars[i] = c
DigitOf(c) == (CHOOSE i \in 1..10 : DigitChars[i] = c) - 1

ParseFail == [ok |-> FALSE, v |-> 0]

RECURSIVE ParseDigits(_, _)
ParseDigits(s, acc) ==
  IF s = <<>> THEN [ok |-> TRUE, v |-> acc]
  ELSE IF ~IsDigit(Head(s)) THEN ParseFail
  ELSE ParseDigits(Tail(s), acc * 10 + DigitOf(Head(s)))

\* Accepts exactly the canonical decimal form: "0", or an optional '-' followed by
\* a digit 1..9 and further digits.  (The 64-bit range check of string2ll is not
\* reached by the members of KeyVals.)
string2ll(s) ==
  LET Negate(r) == [ok |-> r.ok, v |-> 0 - r.v]
      Body(body) ==
        IF body = <<>> THEN ParseFail
        ELSE IF ~IsDigit(Head(body)) \/ Head(body) = "0" THEN ParseFail
        ELSE ParseDigits(body, 0)
  IN IF Len(s) = 0 THEN ParseFail
     ELSE IF Len(s) = 1 /\ s[1] = "0" THEN [ok |-> TRUE, v |-> 0]
     ELSE IF s[1] = "-" THEN Negate(Body(Tail(s)))
     ELSE Body(s)

RECURSIVE NatToBuffer(_)
NatToBuffer(n) ==
  IF n < 10 THEN <<DigitChars[n + 1]>>
  ELSE NatToBuffer(n \div 10) \o <<DigitChars[(n % 10) + 1]>>

FastIntToBuffer(n) == IF n < 0 THEN <<"-">> \o NatToBuffer(0 - n) ELSE NatToBuffer(n)

(***************************************************************************)
(* redis/intset.c: a sorted sequence of distinct integers.                 *)
(***************************************************************************)
intsetNew == <<>>
intsetLen(is) == Len(is)
intsetFind(is, v) == \E i \in 1..Len(is) : is[i] = v

intsetAdd(is, v) ==
  IF intsetFind(is, v) THEN [is |-> is, inserted |-> FALSE]
  ELSE [is |-> SelectSeq(is, LAMBDA x : x < v) \o <<v>> \o SelectSeq(is, LAMBDA x : x > v),
        inserted |-> TRUE]

intsetRemove(is, v) ==
  IF intsetFind(is, v) THEN [is |-> SelectSeq(is, LAMBDA x : x # v), removed |-> 1]
  ELSE [is |-> is, removed |-> 0]

\* intsetGet(is, pos, &v) with pos counted from 0; ok is its return value
intsetGet(is, pos) ==
  IF pos < Len(is) THEN [ok |-> TRUE, v |-> is[pos + 1]] ELSE [ok |-> FALSE, v |-> 0]

intsetTrimTail(is, count) == SubSeq(is, 1, Len(is) - count)

(***************************************************************************)
(* CompactObj: the value stored under a key.                               *)
(***************************************************************************)
OBJ_NONE == "none"       \* no entry in the dictionary
OBJ_STRING == "string"   \* some value that is not a set
OBJ_SET == "set"
kEncodingIntSet == "intset"
kEncodingStrMap == "strmap"
kEncodingNone == "-"

NoObj == [type |-> OBJ_NONE, enc |-> kEncodingNone, is |-> <<>>, fs |-> {}]
StringObj == [type |-> OBJ_STRING, enc |-> kEncodingNone, is |-> <<>>, fs |-> {}]

\* co.InitRobj(OBJ_SET, encoding, ptr)
InitRobj(enc, is, fs) == [type |-> OBJ_SET, enc |-> enc, is |-> is, fs |-> fs]

\* CompactObj::Size
Size(co) == IF co.enc = kEncodingIntSet THEN intsetLen(co.is) ELSE Cardinality(co.fs)

\* CompactObj::IsMember
IsMember(co, v) ==
  LET Parsed(p) == p.ok /\ intsetFind(co.is, p.v)
  IN IF co.enc = kEncodingIntSet THEN Parsed(string2ll(v)) ELSE v \in co.fs

\* The members of a stored value as the byte strings a client sees.
Members(co) ==
  IF co.type # OBJ_SET THEN {}
  ELSE IF co.enc = kEncodingIntSet THEN {FastIntToBuffer(co.is[i]) : i \in 1..Len(co.is)}
  ELSE co.fs

(***************************************************************************)
(* db_slice: Find(db, key, OBJ_SET), Del.                                  *)
(***************************************************************************)
Find(d, key) ==
  IF d[key].type = OBJ_NONE THEN KEY_NOTFOUND
  ELSE IF d[key].type # OBJ_SET THEN WRONG_TYPE
  ELSE OK

Del(d, key) == [d EXCEPT ![key] = NoObj]

(***************************************************************************)
(* State.                                                                  *)
(***************************************************************************)
VARIABLES
  db,                      \* key -> CompactObj (each key lives in shard_of[key])
  shard_of,                \* Shard(key, N): hash(key) mod N, fixed for a run
  set_max_intset_entries,  \* server.set_max_intset_entries, fixed for a run
  aborted,                 \* the process died on a failed CHECK, DCHECK or LOG(DFATAL)
  last,                    \* the last command run to its end: arguments, reply, calls
  txq,                     \* shard id -> the transactions scheduled on it, in order
  tx                       \* transaction -> its coordinator's state (TxSpec)

vars == <<db, shard_of, set_max_intset_entries, aborted, last, txq, tx>>

(***************************************************************************)
(* set_family.cc, anonymous namespace.                                     *)
(***************************************************************************)
\* ConvertTo(intset* src, FlatSet* dest): every integer, formatted, is added to dest
RECURSIVE ConvertToFrom(_, _, _)
ConvertToFrom(src, ii, dest) ==
  LET Got(g) == IF g.ok THEN ConvertToFrom(src, ii + 1, dest \cup {FastIntToBuffer(g.v)})
                ELSE dest
  IN Got(intsetGet(src, ii))

\* ConvertTo with the loop starting at the second integer
ConvertToSkipFirst(src, dest) == ConvertToFrom(src, 1, dest)

ConvertTo(src, dest) == ConvertToFrom(src, 0, dest)

\* IntsetAddSafe with the limit compared by < : the set leaves the intset encoding
\* one member early
IntsetAddSafeStrict(val, is) ==
  LET max_entries == IF set_max_intset_entries >= kMaxIntsetClamp
                       THEN kMaxIntsetClamp ELSE set_max_intset_entries
      Inserted(r) ==
        IF r.inserted
          THEN [is |-> r.is, success |-> intsetLen(r.is) < max_entries, added |-> TRUE]
          ELSE [is |-> r.is, success |-> TRUE, added |-> FALSE]
      Parsed(p) ==
        IF ~p.ok THEN [is |-> is, success |-> FALSE, added |-> FALSE]
        ELSE Inserted(intsetAdd(is, p.v))
  IN Parsed(string2ll(val))

\* IntsetAddSafe without the limit
IntsetAddSafeUnlimited(val, is) ==
  LET Inserted(r) == [is |-> r.is, success |-> TRUE, added |-> r.inserted]
      Parsed(p) ==
        IF ~p.ok THEN [is |-> is, success |-> FALSE, added |-> FALSE]
        ELSE Inserted(intsetAdd(is, p.v))
  IN Parsed(string2ll(val))

\* IntsetAddSafe: (is, success, added)
IntsetAddSafe(val, is) ==
  LET max_entries == IF set_max_intset_entries >= kMaxIntsetClamp
                       THEN kMaxIntsetClamp ELSE set_max_intset_entries
      Inserted(r) ==
        IF r.inserted
          THEN [is |-> r.is, success |-> intsetLen(r.is) <= max_entries, added |-> TRUE]
          ELSE [is |-> r.is, success |-> TRUE, added |-> FALSE]
      Parsed(p) ==
        IF ~p.ok THEN [is |-> is, success |-> FALSE, added |-> FALSE]
        ELSE Inserted(intsetAdd(is, p.v))
  IN Parsed(string2ll(val))

\* RemoveSet, intset branch: the loop over vals from position i on
RECURSIVE RemoveIntSet(_, _, _, _)
RemoveIntSet(vals, i, is, removed) ==
  LET Removed(r) == RemoveIntSet(vals, i + 1, r.is, removed + r.removed)
      Parsed(p) == IF ~p.ok THEN RemoveIntSet(vals, i + 1, is, removed)
                   ELSE Removed(intsetRemove(is, p.v))
  IN IF i > Len(vals) THEN [is |-> is, removed |-> removed]
     ELSE Parsed(string2ll(vals[i]))

\* RemoveSet, FlatSet branch, counting every value whether it was a member or not
RECURSIVE RemoveFlatSetCountAll(_, _, _, _)
RemoveFlatSetCountAll(vals, i, fs, removed) ==
  IF i > Len(vals) THEN [fs |-> fs, removed |-> removed]
  ELSE RemoveFlatSetCountAll(vals, i + 1, fs \ {vals[i]}, removed + 1)

\* RemoveSet, FlatSet branch
RECURSIVE RemoveFlatSet(_, _, _, _)
RemoveFlatSet(vals, i, fs, removed) ==
  IF i > Len(vals) THEN [fs |-> fs, removed |-> removed]
  ELSE RemoveFlatSet(vals, i + 1, fs \ {vals[i]},
                     removed + (IF vals[i] \in fs THEN 1 ELSE 0))

\* RemoveSet: (the object afterwards, removed, isempty)
RemoveSet(vals, set) ==
  LET IntSet(r) == [co |-> [set EXCEPT !.is = r.is], removed |-> r.removed,
                    isempty |-> intsetLen(r.is) = 0]
      StrMap(r) == [co |-> [set EXCEPT !.fs = r.fs], removed |-> r.removed,
                    isempty |-> r.fs = {}]
  IN IF set.enc = kEncodingIntSet THEN IntSet(RemoveIntSet(vals, 1, set.is, 0))
     ELSE StrMap(RemoveFlatSet(vals, 1, set.fs, 0))

\* FillSet(set, f): the members in iteration order.  An intset iterates in ascending
\* order; order is the iteration order of the FlatSet (any enumeration of it).
RECURSIVE FillIntSet(_, _)
FillIntSet(is, ii) ==
  LET Got(g) == IF g.ok THEN <<FastIntToBuffer(g.v)>> \o FillIntSet(is, ii + 1) ELSE <<>>
  IN Got(intsetGet(is, ii))

FillSet(set, order) == IF set.enc = kEncodingIntSet THEN FillIntSet(set.is, 0) ELSE order

\* the enumerations of a finite set: the iteration orders a FlatSet may have
RECURSIVE Orders(_)
Orders(S) == IF S = {} THEN {<<>>} ELSE UNION {{<<x>> \o o : o \in Orders(S \ {x})} : x \in S}

\* the iteration orders of the object stored under key (one, <<>>, when it has none)
IterOrders(co) == IF co.type = OBJ_SET /\ co.enc = kEncodingStrMap THEN Orders(co.fs) ELSE {<<>>}

(***************************************************************************)
(* OpAdd.  An operation returns the dictionary afterwards, its OpResult    *)
(* (status, value) and the PreUpdate / PostUpdate / Del calls it made on   *)
(* the entry (hooks).                                                      *)
(***************************************************************************)
\* lines 258-266: int_set, whether every value parses
OpAddIntSet(vals) == \A i \in 1..Len(vals) : string2ll(vals[i]).ok

\* lines 257-274 with the test of inserted || overwrite left out: the object is
\* always initialised anew
OpAddInitAlways(co, fresh, vals) ==
  IF OpAddIntSet(vals) THEN InitRobj(kEncodingIntSet, intsetNew, {})
  ELSE InitRobj(kEncodingStrMap, <<>>, {})

\* lines 257-274: the object OpAdd works on; fresh: inserted || overwrite
OpAddInit(co, fresh, vals) ==
  IF fresh
    THEN IF OpAddIntSet(vals) THEN InitRobj(kEncodingIntSet, intsetNew, {})
         ELSE InitRobj(kEncodingStrMap, <<>>, {})
    ELSE co

\* lines 289-302 with res += added left out for the value that fails
RECURSIVE OpAddIntsetLoopMissLast(_, _, _, _)
OpAddIntsetLoopMissLast(vals, i, is, res) ==
  LET Added(r, res2) ==
        IF ~r.success THEN [is |-> r.is, res |-> res, success |-> FALSE]
        ELSE OpAddIntsetLoopMissLast(vals, i + 1, r.is, res2)
      Step(r) == Added(r, res + (IF r.added THEN 1 ELSE 0))
  IN IF i > Len(vals) THEN [is |-> is, res |-> res, success |-> TRUE]
     ELSE Step(IntsetAddSafe(vals[i], is))

\* lines 289-302: the intset loop, from position i on; it stops at the first failure
RECURSIVE OpAddIntsetLoop(_, _, _, _)
OpAddIntsetLoop(vals, i, is, res) ==
  LET Added(r, res2) ==
        IF ~r.success THEN [is |-> r.is, res |-> res2, success |-> FALSE]
        ELSE OpAddIntsetLoop(vals, i + 1, r.is, res2)
      Step(r) == Added(r, res + (IF r.added THEN 1 ELSE 0))
  IN IF i > Len(vals) THEN [is |-> is, res |-> res, success |-> TRUE]
     ELSE Step(IntsetAddSafe(vals[i], is))

\* lines 308-313, counting every value whether it was a member or not
RECURSIVE OpAddStrMapLoopCountAll(_, _, _, _)
OpAddStrMapLoopCountAll(vals, i, fs, res) ==
  IF i > Len(vals) THEN [fs |-> fs, res |-> res]
  ELSE OpAddStrMapLoopCountAll(vals, i + 1, fs \cup {vals[i]}, res + 1)

\* lines 308-313: the FlatSet loop runs over all of vals
RECURSIVE OpAddStrMapLoop(_, _, _, _)
OpAddStrMapLoop(vals, i, fs, res) ==
  IF i > Len(vals) THEN [fs |-> fs, res |-> res]
  ELSE OpAddStrMapLoop(vals, i + 1, fs \cup {vals[i]},
                       res + (IF vals[i] \in fs THEN 0 ELSE 1))

OpAdd(d, key, vals, overwrite) ==
  LET inserted == d[key].type = OBJ_NONE
      pre == IF inserted THEN <<>> ELSE <<"PreUpdate">>
      Return(co, res) == [db |-> [d EXCEPT ![key] = co], status |-> OK, value |-> res,
                          hooks |-> pre \o <<"PostUpdate">>]
      StrMapDone(l) == Return(InitRobj(kEncodingStrMap, <<>>, l.fs), l.res)
      StrMap(fs, res) == StrMapDone(OpAddStrMapLoop(vals, 1, fs, res))
      IntSetDone(l) == IF l.success THEN Return(InitRobj(kEncodingIntSet, l.is, {}), l.res)
                       ELSE StrMap(ConvertTo(l.is, {}), l.res)
      Fill(co) == IF co.enc = kEncodingIntSet
                    THEN IntSetDone(OpAddIntsetLoop(vals, 1, co.is, 0))
                    ELSE StrMap(co.fs, 0)
  IN IF overwrite /\ vals = <<>>
       THEN [db |-> Del(d, key), status |-> OK, value |-> 0, hooks |-> <<"Del">>]
     ELSE IF ~(inserted \/ overwrite) /\ d[key].type # OBJ_SET
       THEN [db |-> d, status |-> WRONG_TYPE, value |-> 0, hooks |-> pre]
     ELSE Fill(OpAddInit(d[key], inserted \/ overwrite, vals))

(***************************************************************************)
(* OpRem                                                                   *)
(***************************************************************************)
\* OpRem without the deletion of a set that became empty
OpRemKeepEmpty(d, key, vals) ==
  LET Removed(r) == [db |-> [d EXCEPT ![key] = r.co], status |-> OK, value |-> r.removed,
                     hooks |-> <<"PreUpdate", "PostUpdate">>]
  IN IF Find(d, key) # OK
       THEN [db |-> d, status |-> Find(d, key), value |-> 0, hooks |-> <<>>]
       ELSE Removed(RemoveSet(vals, d[key]))

OpRem(d, key, vals) ==
  LET Removed(r) ==
        IF r.isempty
          THEN [db |-> Del(d, key), status |-> OK, value |-> r.removed,
                hooks |-> <<"PreUpdate", "Del">>]
          ELSE [db |-> [d EXCEPT ![key] = r.co], status |-> OK, value |-> r.removed,
                hooks |-> <<"PreUpdate", "PostUpdate">>]
  IN IF Find(d, key) # OK
       THEN [db |-> d, status |-> Find(d, key), value |-> 0, hooks |-> <<>>]
       ELSE Removed(RemoveSet(vals, d[key]))

(***************************************************************************)
(* SetFamily::OpPop.  order is the iteration order of the FlatSet: begin() *)
(* is the first member of order that is still in the set.                  *)
(***************************************************************************)
\* lines 913-916, copying the first count values instead of the last
OpPopIntSetHead(is, slen, count) ==
  [j \in 1..count |-> FastIntToBuffer(intsetGet(is, j - 1).v)]

\* lines 913-916: copy the last count values
OpPopIntSetTail(is, slen, count) ==
  [j \in 1..count |-> FastIntToBuffer(intsetGet(is, slen - count + j - 1).v)]

\* lines 924-929: count times, take begin() and erase it
OpPopStrMapHead(order, count) == SubSeq(order, 1, count)

OpPop(d, key, count, order) ==
  LET StrMap(co, popped) == [db |-> [d EXCEPT ![key].fs = co.fs \ Range(popped)],
                             status |-> OK, value |-> popped, hooks |-> <<>>]
      Found(co, slen) ==
        IF count >= slen
          THEN [db |-> Del(d, key), status |-> OK, value |-> FillSet(co, order),
                hooks |-> <<"Del">>]
        ELSE IF co.enc = kEncodingIntSet
          THEN [db |-> [d EXCEPT ![key].is = intsetTrimTail(co.is, count)],
                status |-> OK, value |-> OpPopIntSetTail(co.is, slen, count),
                hooks |-> <<>>]
        ELSE StrMap(co, OpPopStrMapHead(order, count))
  IN IF Find(d, key) # OK
       THEN [db |-> d, status |-> Find(d, key), value |-> <<>>, hooks |-> <<>>]
     ELSE IF count = 0
       THEN [db |-> d, status |-> OK, value |-> <<>>, hooks |-> <<>>]
     ELSE Found(d[key], Size(d[key]))

(***************************************************************************)
(* Transaction::ShardArgsInShard: the key arguments routed to shard sid,   *)
(* in their original order.                                                *)
(***************************************************************************)
ShardArgsInShard(args, sid) == SelectSeq(args, LAMBDA k : shard_of[k] = sid)

\* the shards a command with these key arguments runs its callbacks on
ActiveShards(args) == {shard_of[args[i]] : i \in 1..Len(args)}

(***************************************************************************)
(* OpResult<vector<string>> of the multi-key operations.  The vectors hold *)
(* distinct strings in an unspecified order and are only read as sets.     *)
(***************************************************************************)
ResultOK(v) == [status |-> OK, value |-> v]
ResultStatus(st) == [status |-> st, value |-> {}]

\* FillSet into a set of strings
FillSetUniques(set) ==
  IF set.enc = kEncodingIntSet THEN Range(FillIntSet(set.is, 0)) ELSE set.fs

\* SetFamily::OpUnion returning at a key that is not found, as it does at a key of
\* another type
RECURSIVE OpUnionNotFoundStopsFrom(_, _, _, _)
OpUnionNotFoundStopsFrom(d, keys, i, uniques) ==
  IF i > Len(keys) THEN ResultOK(uniques)
  ELSE IF Find(d, keys[i]) = OK
    THEN OpUnionNotFoundStopsFrom(d, keys, i + 1, uniques \cup FillSetUniques(d[keys[i]]))
  ELSE ResultStatus(Find(d, keys[i]))

OpUnionNotFoundStops(d, keys) == OpUnionNotFoundStopsFrom(d, keys, 1, {})

\* SetFamily::OpUnion
RECURSIVE OpUnionFrom(_, _, _, _)
OpUnionFrom(d, keys, i, uniques) ==
  IF i > Len(keys) THEN ResultOK(uniques)
  ELSE IF Find(d, keys[i]) = OK
    THEN OpUnionFrom(d, keys, i + 1, uniques \cup FillSetUniques(d[keys[i]]))
  ELSE IF Find(d, keys[i]) # KEY_NOTFOUND THEN ResultStatus(Find(d, keys[i]))
  ELSE OpUnionFrom(d, keys, i + 1, uniques)

OpUnion(d, keys) == OpUnionFrom(d, keys, 1, {})

\* SetFamily::OpDiff with the source's members collected, and nothing subtracted
OpDiffFillOnly(d, keys) ==
  IF Find(d, keys[1]) # OK THEN ResultStatus(Find(d, keys[1]))
  ELSE ResultOK(FillSetUniques(d[keys[1]]))

\* SetFamily::OpDiff: keys is ShardArgsInShard of the whole command.  The body that
\* fills uniques and subtracts the other keys is compiled out (#if 0).
OpDiff(d, keys) ==
  IF Find(d, keys[1]) # OK THEN ResultStatus(Find(d, keys[1]))
  ELSE ResultOK({})

\* SetFamily::OpInter: (result, dfatal); dfatal: LOG(DFATAL) << "TBD" was reached.
\* The intersection of several keys of one shard is compiled out (#if 0).
OpInter(d, largs, remove_first) ==
  LET One(key) == IF Find(d, key) # OK THEN ResultStatus(Find(d, key))
                  ELSE ResultOK(FillSetUniques(d[key]))
      Keys1(keys) == IF Len(keys) = 1 THEN [result |-> One(keys[1]), dfatal |-> FALSE]
                     ELSE [result |-> ResultOK({}), dfatal |-> TRUE]
  IN Keys1(IF remove_first THEN Tail(largs) ELSE largs)

(***************************************************************************)
(* The combiners.  result_vec: shard id -> OpResult.                       *)
(***************************************************************************)
RECURSIVE UnionResultVecFrom(_, _, _)
UnionResultVecFrom(result_vec, i, uniques) ==
  IF i >= NumShards THEN ResultOK(uniques)
  ELSE IF result_vec[i].status = OK \/ result_vec[i].status = SKIPPED
    THEN UnionResultVecFrom(result_vec, i + 1, uniques \cup result_vec[i].value)
  ELSE IF result_vec[i].status # KEY_NOTFOUND THEN ResultStatus(result_vec[i].status)
  ELSE UnionResultVecFrom(result_vec, i + 1, uniques)

UnionResultVec(result_vec) == UnionResultVecFrom(result_vec, 0, {})

RECURSIVE DiffSubtractFrom(_, _, _, _)
DiffSubtractFrom(result_vec, src_shard, i, uniques) ==
  IF i >= NumShards THEN uniques
  ELSE IF i = src_shard THEN DiffSubtractFrom(result_vec, src_shard, i + 1, uniques)
  ELSE DiffSubtractFrom(result_vec, src_shard, i + 1,
                        IF result_vec[i].status = OK THEN uniques \ result_vec[i].value
                        ELSE uniques)

DiffResultVec(result_vec, src_shard) ==
  IF \E i \in Shards : result_vec[i].status = WRONG_TYPE THEN ResultStatus(WRONG_TYPE)
  ELSE ResultOK(DiffSubtractFrom(result_vec, src_shard, 0, result_vec[src_shard].value))

\* uniques: string -> count, over the strings of the first contributing shard
RECURSIVE InterResultVecFrom(_, _, _, _, _)
InterResultVecFrom(result_vec, required_shard_cnt, i, first, uniques) ==
  IF i >= NumShards
    THEN ResultOK({s \in DOMAIN uniques : uniques[s] = required_shard_cnt})
  ELSE IF result_vec[i].status = SKIPPED
    THEN InterResultVecFrom(result_vec, required_shard_cnt, i + 1, first, uniques)
  ELSE IF result_vec[i].status = KEY_NOTFOUND THEN ResultOK({})
  ELSE IF result_vec[i].status # OK THEN ResultStatus(result_vec[i].status)
  ELSE IF first
    THEN InterResultVecFrom(result_vec, required_shard_cnt, i + 1, FALSE,
                            [s \in result_vec[i].value |-> 1])
    ELSE InterResultVecFrom(result_vec, required_shard_cnt, i + 1, FALSE,
                            [s \in DOMAIN uniques |->
                               IF s \in result_vec[i].value THEN uniques[s] + 1
                               ELSE uniques[s]])

InterResultVec(result_vec, required_shard_cnt) ==
  InterResultVecFrom(result_vec, required_shard_cnt, 0, TRUE, <<>>)

(***************************************************************************)
(* Mover (SMOVE).  found_: two OpResult<bool>, default-constructed OK.     *)
(***************************************************************************)
FoundInit == <<[status |-> OK, value |-> FALSE], [status |-> OK, value |-> FALSE]>>

\* Mover::OpFind on one shard: the loop over largs from position i on
RECURSIVE OpFindFrom(_, _, _, _, _, _)
OpFindFrom(d, largs, i, src_, member_, found_) ==
  LET Found(k, index, res) ==
        OpFindFrom(d, largs, i + 1, src_, member_,
          IF res = OK /\ index = 0
            THEN [found_ EXCEPT ![1] = [status |-> OK, value |-> IsMember(d[k], member_)]]
            ELSE [found_ EXCEPT ![index + 1] = [status |-> res, value |-> FALSE]])
  IN IF i > Len(largs) THEN found_
     ELSE Found(largs[i], IF largs[i] = src_ THEN 0 ELSE 1, Find(d, largs[i]))

OpFind(d, largs, src_, member_, found_) == OpFindFrom(d, largs, 1, src_, member_, found_)

\* DCHECK_LT(largs.size(), 2u) of OpFind and OpMutate
MoverDcheck(largs) == Len(largs) < 2

\* Mover::OpMutate on one shard: (db, hooks, check); check: CHECK_EQ(1u, OpRem(..)) held
RECURSIVE OpMutateFrom(_, _, _, _, _, _, _)
OpMutateFrom(d, largs, i, src_, member_, hooks, check) ==
  LET Rem(r) == OpMutateFrom(r.db, largs, i + 1, src_, member_, hooks \o r.hooks,
                             check /\ r.value = 1)
      Add(r) == OpMutateFrom(r.db, largs, i + 1, src_, member_, hooks \o r.hooks, check)
  IN IF i > Len(largs) THEN [db |-> d, hooks |-> hooks, check |-> check]
     ELSE IF largs[i] = src_ THEN Rem(OpRem(d, largs[i], <<member_>>))
     ELSE Add(OpAdd(d, largs[i], <<member_>>, FALSE))

\* Mover::OpMutate without the OpAdd to dest
RECURSIVE OpMutateRemOnlyFrom(_, _, _, _, _, _, _)
OpMutateRemOnlyFrom(d, largs, i, src_, member_, hooks, check) ==
  LET Rem(r) == OpMutateRemOnlyFrom(r.db, largs, i + 1, src_, member_, hooks \o r.hooks,
                                    check /\ r.value = 1)
  IN IF i > Len(largs) THEN [db |-> d, hooks |-> hooks, check |-> check]
     ELSE IF largs[i] = src_ THEN Rem(OpRem(d, largs[i], <<member_>>))
     ELSE OpMutateRemOnlyFrom(d, largs, i + 1, src_, member_, hooks, check)

OpMutateRemOnly(d, largs, src_, member_) ==
  OpMutateRemOnlyFrom(d, largs, 1, src_, member_, <<>>, TRUE)

OpMutate(d, largs, src_, member_) == OpMutateFrom(d, largs, 1, src_, member_, <<>>, TRUE)

\* Mover::Commit without the test of found_[0]: the mutating hop also when the member
\* was not found
CommitNoMemberTest(found_, src_, dest_) ==
  IF found_[1].status = WRONG_TYPE \/ found_[2].status = WRONG_TYPE
    THEN [status |-> WRONG_TYPE, value |-> 0, noop |-> TRUE]
  ELSE [status |-> OK, value |-> 1, noop |-> (src_ = dest_)]

\* Mover::Commit: the reply and whether the concluding hop is NoOpCb
Commit(found_, src_, dest_) ==
  IF found_[1].status = WRONG_TYPE \/ found_[2].status = WRONG_TYPE
    THEN [status |-> WRONG_TYPE, value |-> 0, noop |-> TRUE]
  ELSE IF ~(IF found_[1].status = OK THEN found_[1].value ELSE FALSE)
    THEN [status |-> OK, value |-> 0, noop |-> TRUE]
  ELSE [status |-> OK, value |-> 1, noop |-> (src_ = dest_)]

(***************************************************************************)
(* Replies (the calls on the connection) and the record of the last        *)
(* command.                                                                *)
(***************************************************************************)
SendLong(n) == [kind |-> "long", n |-> n, status |-> OK, arr |-> <<>>]
SendError(status) == [kind |-> "error", n |-> 0, status |-> status, arr |-> <<>>]
SendNull == [kind |-> "null", n |-> 0, status |-> OK, arr |-> <<>>]
SendBulkString(str) == [kind |-> "bulk", n |-> 0, status |-> OK, arr |-> <<str>>]
SendStringArr(arr) == [kind |-> "array", n |-> 0, status |-> OK, arr |-> arr]
\* the process died before it replied
NoReply == [kind |-> "none", n |-> 0, status |-> OK, arr |-> <<>>]

NoCount == 0 - 1    \* SPOP key, without a count
BadCount == 0 - 2   \* SPOP key arg, with an arg absl::SimpleAtoi rejects
NoStatus == "-"     \* the process died before the operation returned

\* the calls a handler makes on its transaction
CallSingleHop == [call |-> "ScheduleSingleHop", cb |-> "", concluding |-> TRUE]
CallSchedule == [call |-> "Schedule", cb |-> "", concluding |-> FALSE]
CallExecute(cb, concluding) == [call |-> "Execute", cb |-> cb, concluding |-> concluding]

\* status: the status of the operation's (or the combiner's) OpResult
Last(cmd, keys, vals, count, status, reply, hooks, calls) ==
  [cmd |-> cmd, keys |-> keys, vals |-> vals, count |-> count, status |-> status,
   reply |-> reply, hooks |-> hooks, calls |-> calls]

NoLast == Last("", <<>>, <<>>, NoCount, NoStatus, NoReply, <<>>, <<>>)

(***************************************************************************)
(* Single-hop commands on one key.                                         *)
(***************************************************************************)
\* SetFamily::SAdd
SAddReply(r) ==
  IF r.status = OK THEN SendLong(r.value)
  ELSE IF r.status = WRONG_TYPE THEN SendError(WRONG_TYPE)
  ELSE SendNull

SAdd(key, vals) ==
  LET Reply(r) ==
        /\ db' = r.db
        /\ last' = Last("SADD", <<key>>, vals, NoCount, r.status, SAddReply(r), r.hooks,
                        <<CallSingleHop>>)
  IN /\ ~aborted
     /\ Reply(OpAdd(db, key, vals, FALSE))
     /\ UNCHANGED <<shard_of, set_max_intset_entries, aborted, txq, tx>>

\* SetFamily::SRem
SRemReply(r) ==
  IF r.status = WRONG_TYPE THEN SendError(WRONG_TYPE)
  ELSE IF r.status = OK THEN SendLong(r.value)
  ELSE SendLong(0)

SRem(key, vals) ==
  LET Reply(r) ==
        /\ db' = r.db
        /\ last' = Last("SREM", <<key>>, vals, NoCount, r.status, SRemReply(r), r.hooks,
                        <<CallSingleHop>>)
  IN /\ ~aborted
     /\ Reply(OpRem(db, key, vals))
     /\ UNCHANGED <<shard_of, set_max_intset_entries, aborted, txq, tx>>

\* SetFamily::SPop.  arg: NoCount for SPOP key (count is 1), BadCount for a count
\* argument that does not parse, otherwise the parsed count.
SPopReply(r, arg) ==
  IF r.status = OK \/ r.status = KEY_NOTFOUND
    THEN IF arg = NoCount
           THEN IF r.status = KEY_NOTFOUND THEN SendNull
                ELSE SendBulkString(r.value[1])
           ELSE SendStringArr(r.value)
    ELSE SendError(r.status)

SPop(key, arg) ==
  LET Reply(r) ==
        /\ db' = r.db
        /\ last' = Last("SPOP", <<key>>, <<>>, arg, r.status, SPopReply(r, arg), r.hooks,
                        <<CallSingleHop>>)
  IN /\ ~aborted
     /\ IF arg = BadCount
          THEN /\ db' = db
               /\ last' = Last("SPOP", <<key>>, <<>>, arg, INVALID_INT,
                               SendError(INVALID_INT), <<>>, <<>>)
          ELSE \E order \in IterOrders(db[key]) :
                 Reply(OpPop(db, key, IF arg = NoCount THEN 1 ELSE arg, order))
     /\ UNCHANGED <<shard_of, set_max_intset_entries, aborted, txq, tx>>

(***************************************************************************)
(* SetFamily::SMove: Schedule, Mover::Find (a hop of OpFind), Mover::Commit *)
(* (a concluding hop of OpMutate or NoOpCb).  The callbacks of one hop run *)
(* on the shards that hold a key argument; here in ascending shard order.  *)
(* A failed DCHECK ends the process in a build that has DCHECKs and does   *)
(* nothing in a build that has none: both outcomes are steps.              *)
(***************************************************************************)
RECURSIVE FindHop(_, _, _, _, _, _)
FindHop(d, args, src_, member_, found_, sid) ==
  IF sid >= NumShards THEN found_
  ELSE FindHop(d, args, src_, member_,
               IF sid \in ActiveShards(args)
                 THEN OpFind(d, ShardArgsInShard(args, sid), src_, member_, found_)
                 ELSE found_,
               sid + 1)

RECURSIVE MutateHop(_, _, _, _, _, _, _)
MutateHop(d, args, src_, member_, hooks, check, sid) ==
  LET Mutated(m) ==
        MutateHop(m.db, args, src_, member_, hooks \o m.hooks, check /\ m.check, sid + 1)
  IN IF sid >= NumShards THEN [db |-> d, hooks |-> hooks, check |-> check]
     ELSE IF sid \notin ActiveShards(args)
       THEN MutateHop(d, args, src_, member_, hooks, check, sid + 1)
     ELSE Mutated(OpMutate(d, ShardArgsInShard(args, sid), src_, member_))

SMove(src, dest, member) ==
  LET args == <<src, dest>>
      find_calls == <<CallSchedule, CallExecute("OpFind", FALSE)>>
      Died(d, hooks, calls) ==
        /\ aborted' = TRUE
        /\ db' = d
        /\ last' = Last("SMOVE", args, <<member>>, NoCount, NoStatus, NoReply, hooks, calls)
      Replied(c, m) ==
        IF ~m.check
          THEN Died(m.db, m.hooks, find_calls \o <<CallExecute("OpMutate", TRUE)>>)
          ELSE /\ aborted' = aborted
               /\ db' = m.db
               /\ last' = Last("SMOVE", args, <<member>>, NoCount, c.status,
                               IF c.status # OK THEN SendError(c.status)
                               ELSE SendLong(c.value),
                               m.hooks,
                               find_calls \o
                                 <<CallExecute(IF c.noop THEN "NoOpCb" ELSE "OpMutate", TRUE)>>)
      Committed(c) ==
        Replied(c, IF c.noop THEN [db |-> db, hooks |-> <<>>, check |-> TRUE]
                   ELSE MutateHop(db, args, src, member, <<>>, TRUE, 0))
  IN /\ ~aborted
     /\ \/ /\ \E sid \in ActiveShards(args) : ~MoverDcheck(ShardArgsInShard(args, sid))
           /\ Died(db, <<>>, find_calls)
        \/ Committed(Commit(FindHop(db, args, src, member, FoundInit, 0), src, dest))
     /\ UNCHANGED <<shard_of, set_max_intset_entries, txq, tx>>

(***************************************************************************)
(* The *STORE commands.  result_set: shard id -> OpResult, SKIPPED at      *)
(* first; the first hop's callback fills the entry of its shard.           *)
(***************************************************************************)
ResultSkipped == [status |-> SKIPPED, value |-> {}]

\* union_cb of SUnionStore without largs.remove_prefix(1): dest is read as a source
UnionCbKeepDest(d, args, dest_key, sid) == OpUnion(d, ShardArgsInShard(args, sid))

\* union_cb of SUnionStore: result_set[sid] afterwards
UnionCb(d, args, dest_key, sid) ==
  LET Rest(rest) == IF rest = <<>> THEN ResultSkipped ELSE OpUnion(d, rest)
      Largs(largs) == Rest(IF sid = shard_of[dest_key] THEN Tail(largs) ELSE largs)
  IN Largs(ShardArgsInShard(args, sid))

\* store_cb: OpAdd(dest_key, result, true) on dest's shard, with the reply SendLong(size)
StoreStep(cmd, args, dest_key, result, first_cb) ==
  LET Stored(r) ==
        /\ db' = r.db
        /\ aborted' = aborted
        /\ last' = Last(cmd, args, <<>>, NoCount, OK, SendLong(Len(result)), r.hooks,
                        <<CallSchedule, CallExecute(first_cb, FALSE),
                          CallExecute("store_cb", TRUE)>>)
  IN Stored(OpAdd(db, dest_key, result, TRUE))

\* the error path: Execute(NoOpCb, true), SendError
StoreErrorStep(cmd, args, status, first_cb) ==
  /\ db' = db
  /\ aborted' = aborted
  /\ last' = Last(cmd, args, <<>>, NoCount, status, SendError(status), <<>>,
                  <<CallSchedule, CallExecute(first_cb, FALSE),
                    CallExecute("NoOpCb", TRUE)>>)

\* the process dies in a callback of the first hop
StoreAbortStep(cmd, args, first_cb) ==
  /\ db' = db
  /\ aborted' = TRUE
  /\ last' = Last(cmd, args, <<>>, NoCount, NoStatus, NoReply, <<>>,
                  <<CallSchedule, CallExecute(first_cb, FALSE)>>)

\* after the first hop: the error path, or store_cb with the combined strings in the
\* order ToSvArray leaves them in (any)
StoreCombined(cmd, args, dest_key, combined, first_cb) ==
  IF combined.status # OK THEN StoreErrorStep(cmd, args, combined.status, first_cb)
  ELSE \E result \in Orders(combined.value) :
         StoreStep(cmd, args, dest_key, result, first_cb)

SUnionStore(dest_key, srcs) ==
  LET Args(args) ==
        StoreCombined("SUNIONSTORE", args, dest_key,
                      UnionResultVec([sid \in Shards |->
                                        IF sid \in ActiveShards(args)
                                          THEN UnionCb(db, args, dest_key, sid)
                                          ELSE ResultSkipped]),
                      "union_cb")
  IN /\ ~aborted
     /\ Args(<<dest_key>> \o srcs)
     /\ UNCHANGED <<shard_of, set_max_intset_entries, txq, tx>>

\* inter_cb of SInterStore: (ran, result, dfatal); ran: inter_shard_cnt was incremented
InterCb(d, args, dest_key, sid) ==
  LET Inter(r) == [ran |-> TRUE, result |-> r.result, dfatal |-> r.dfatal]
      Largs(largs) ==
        IF sid = shard_of[dest_key] /\ Len(largs) = 1
          THEN [ran |-> FALSE, result |-> ResultSkipped, dfatal |-> FALSE]
          ELSE Inter(OpInter(d, largs, sid = shard_of[dest_key]))
  IN Largs(ShardArgsInShard(args, sid))

\* LOG(DFATAL) ends the process in a debug build and logs an error otherwise
SInterStore(dest_key, srcs) ==
  LET Cbs(args, cbs) ==
        \/ /\ \E sid \in DOMAIN cbs : cbs[sid].dfatal
           /\ StoreAbortStep("SINTERSTORE", args, "inter_cb")
        \/ StoreCombined("SINTERSTORE", args, dest_key,
                         InterResultVec([sid \in Shards |->
                                           IF sid \in DOMAIN cbs THEN cbs[sid].result
                                           ELSE ResultSkipped],
                                        Cardinality({sid \in DOMAIN cbs : cbs[sid].ran})),
                         "inter_cb")
      Args(args) == Cbs(args, [sid \in ActiveShards(args) |-> InterCb(db, args, dest_key, sid)])
  IN /\ ~aborted
     /\ Args(<<dest_key>> \o srcs)
     /\ UNCHANGED <<shard_of, set_max_intset_entries, txq, tx>>

\* diff_cb of SDiffStore: result_set[sid] afterwards.  OpDiff reads the shard's
\* argument slice from the transaction again, dest_key included.
DiffCb(d, args, dest_key, src_key, sid) ==
  LET Rest(rest) ==
        IF rest = <<>> THEN ResultSkipped
        ELSE IF sid = shard_of[src_key] THEN OpDiff(d, ShardArgsInShard(args, sid))
        ELSE OpUnion(d, rest)
      Largs(largs) == Rest(IF sid = shard_of[dest_key] THEN Tail(largs) ELSE largs)
  IN Largs(ShardArgsInShard(args, sid))

SDiffStore(dest_key, srcs) ==
  LET Args(args) ==
        StoreCombined("SDIFFSTORE", args, dest_key,
                      DiffResultVec([sid \in Shards |->
                                       IF sid \in ActiveShards(args)
                                         THEN DiffCb(db, args, dest_key, srcs[1], sid)
                                         ELSE ResultSkipped],
                                    shard_of[srcs[1]]),
                      "diff_cb")
  IN /\ ~aborted
     /\ Args(<<dest_key>> \o srcs)
     /\ UNCHANGED <<shard_of, set_max_intset_entries, txq, tx>>

(***************************************************************************)
(* The reading commands, each a single hop.                                *)
(***************************************************************************)
\* SetFamily::SCard
SCardCb(d, key) ==
  IF Find(d, key) # OK THEN [status |-> Find(d, key), value |-> 0]
  ELSE [status |-> OK, value |-> Size(d[key])]

SCardReply(r) ==
  IF r.status = OK THEN SendLong(r.value)
  ELSE IF r.status = WRONG_TYPE THEN SendError(WRONG_TYPE)
  ELSE SendLong(0)

SCard(key) ==
  LET Reply(r) ==
        last' = Last("SCARD", <<key>>, <<>>, NoCount, r.status, SCardReply(r), <<>>,
                     <<CallSingleHop>>)
  IN /\ ~aborted
     /\ Reply(SCardCb(db, key))
     /\ UNCHANGED <<db, shard_of, set_max_intset_entries, aborted, txq, tx>>

\* SetFamily::SIsMember: the status its callback returns
SIsMemberCb(d, key, val) ==
  IF Find(d, key) = OK
    THEN IF IsMember(d[key], val) THEN OK ELSE KEY_NOTFOUND
    ELSE Find(d, key)

SIsMemberReply(status) == IF status = OK THEN SendLong(1) ELSE SendLong(0)

SIsMember(key, val) ==
  LET Reply(status) ==
        last' = Last("SISMEMBER", <<key>>, <<val>>, NoCount, status, SIsMemberReply(status),
                     <<>>, <<CallSingleHop>>)
  IN /\ ~aborted
     /\ Reply(SIsMemberCb(db, key, val))
     /\ UNCHANGED <<db, shard_of, set_max_intset_entries, aborted, txq, tx>>

\* SetFamily::SMembers: OpInter on the one key; the vector is in iteration order
SMembers(key) ==
  LET Reply(r, order) ==
        last' = Last("SMEMBERS", <<key>>, <<>>, NoCount, r.status,
                     IF r.status = OK THEN SendStringArr(FillSet(db[key], order))
                     ELSE IF r.status = KEY_NOTFOUND THEN SendStringArr(<<>>)
                     ELSE SendError(r.status),
                     <<>>, <<CallSingleHop>>)
  IN /\ ~aborted
     /\ \E order \in IterOrders(db[key]) : Reply(OpInter(db, <<key>>, FALSE).result, order)
     /\ UNCHANGED <<db, shard_of, set_max_intset_entries, aborted, txq, tx>>

\* the reply of SUnion, SInter and SDiff: the strings in the order the hash set (or
\* hash map) of the combiner iterates in (any), or the error
ReadReply(cmd, args, combined) ==
  IF combined.status # OK
    THEN last' = Last(cmd, args, <<>>, NoCount, combined.status, SendError(combined.status),
                      <<>>, <<CallSingleHop>>)
    ELSE \E arr \in Orders(combined.value) :
           last' = Last(cmd, args, <<>>, NoCount, OK, SendStringArr(arr), <<>>,
                        <<CallSingleHop>>)

\* SetFamily::SUnion.  result_set is default-constructed: OK and empty.
SUnion(args) ==
  /\ ~aborted
  /\ ReadReply("SUNION", args,
               UnionResultVec([sid \in Shards |->
                                 IF sid \in ActiveShards(args)
                                   THEN OpUnion(db, ShardArgsInShard(args, sid))
                                   ELSE ResultOK({})]))
  /\ UNCHANGED <<db, shard_of, set_max_intset_entries, aborted, txq, tx>>

\* SetFamily::SInter.  LOG(DFATAL) ends the process in a debug build and logs an
\* error otherwise.
SInter(args) ==
  LET Cbs(cbs) ==
        \/ /\ \E sid \in DOMAIN cbs : cbs[sid].dfatal
           /\ aborted' = TRUE
           /\ last' = Last("SINTER", args, <<>>, NoCount, NoStatus, NoReply, <<>>,
                           <<CallSingleHop>>)
        \/ /\ aborted' = aborted
           /\ ReadReply("SINTER", args,
                        InterResultVec([sid \in Shards |->
                                          IF sid \in DOMAIN cbs THEN cbs[sid].result
                                          ELSE ResultSkipped],
                                       Cardinality(ActiveShards(args))))
  IN /\ ~aborted
     /\ Cbs([sid \in ActiveShards(args) |-> OpInter(db, ShardArgsInShard(args, sid), FALSE)])
     /\ UNCHANGED <<db, shard_of, set_max_intset_entries, txq, tx>>

\* SetFamily::SDiff
SDiff(args) ==
  /\ ~aborted
  /\ ReadReply("SDIFF", args,
               DiffResultVec([sid \in Shards |->
                                IF sid \notin ActiveShards(args) THEN ResultSkipped
                                ELSE IF sid = shard_of[args[1]]
                                  THEN OpDiff(db, ShardArgsInShard(args, sid))
                                ELSE OpUnion(db, ShardArgsInShard(args, sid))],
                             shard_of[args[1]]))
  /\ UNCHANGED <<db, shard_of, set_max_intset_entries, aborted, txq, tx>>

(***************************************************************************)
(* The transaction layer as the hops see it: Schedule appends the          *)
(* transaction to the queue of every shard that holds one of its keys; a   *)
(* shard runs the callback of the current hop of the transaction at the    *)
(* head of its queue; a hop ends when every such shard has run it; the     *)
(* concluding hop removes the transaction from the queue.                  *)
(*                                                                         *)
(* TxSpec runs three transactions on the keys TxSrc, TxDest: SMOVE TxSrc   *)
(* TxDest TxMember, SUNION TxSrc TxDest and SINTER TxSrc TxDest.           *)
(***************************************************************************)
TxNames == {"smove", "sunion", "sinter"}
TxSrc == "a"
TxDest == "b"
TxMember == S2
TxArgs == <<TxSrc, TxDest>>

TxIdle == [pc |-> "idle", ran |-> {}, found_ |-> FoundInit,
           result_set |-> [sid \in Shards |-> ResultSkipped],
           commit |-> [status |-> OK, value |-> 0, noop |-> TRUE],
           res |-> ResultSkipped]

\* shard sid is to run the callback of t's current hop
Runnable(t, sid) == txq[sid] # <<>> /\ Head(txq[sid]) = t /\ sid \notin tx[t].ran

HopDone(t) == tx[t].ran = ActiveShards(TxArgs)

\* Schedule / ScheduleSingleHop.  SUnion's result_set is default-constructed (OK),
\* SInter's starts as SKIPPED.
TxSchedule(t) ==
  /\ ~aborted
  /\ tx[t].pc = "idle"
  /\ txq' = [sid \in Shards |->
               IF sid \in ActiveShards(TxArgs) THEN Append(txq[sid], t) ELSE txq[sid]]
  /\ tx' = [tx EXCEPT ![t].pc = IF t = "smove" THEN "find" ELSE "read",
                      ![t].result_set = [sid \in Shards |->
                                           IF t = "sunion" THEN ResultOK({})
                                           ELSE ResultSkipped]]
  /\ UNCHANGED <<db, shard_of, set_max_intset_entries, aborted, last>>

\* the process dies in a callback
TxDie == aborted' = TRUE /\ UNCHANGED <<db, shard_of, set_max_intset_entries, last, txq, tx>>

\* Mover::OpFind on shard sid
TxOpFind(sid) ==
  /\ ~aborted
  /\ Runnable("smove", sid)
  /\ tx["smove"].pc = "find"
  /\ \/ ~MoverDcheck(ShardArgsInShard(TxArgs, sid)) /\ TxDie
     \/ /\ tx' = [tx EXCEPT !["smove"].found_ =
                              OpFind(db, ShardArgsInShard(TxArgs, sid), TxSrc, TxMember, @),
                            !["smove"].ran = @ \cup {sid}]
        /\ UNCHANGED <<db, shard_of, set_max_intset_entries, aborted, last, txq>>

\* Mover::Commit, after the hop of Mover::Find
TxCommit ==
  LET Decided(c) ==
        tx' = [tx EXCEPT !["smove"].commit = c,
                         !["smove"].pc = IF c.noop THEN "noop" ELSE "mutate",
                         !["smove"].ran = {}]
  IN /\ ~aborted
     /\ tx["smove"].pc = "find"
     /\ HopDone("smove")
     /\ Decided(Commit(tx["smove"].found_, TxSrc, TxDest))
     /\ UNCHANGED <<db, shard_of, set_max_intset_entries, aborted, last, txq>>

\* Mover::OpMutate on shard sid, in the concluding hop
TxOpMutate(sid) ==
  LET Mutated(m) ==
        /\ db' = m.db
        /\ aborted' = ~m.check
        /\ txq' = [txq EXCEPT ![sid] = Tail(@)]
        /\ tx' = [tx EXCEPT !["smove"].ran = @ \cup {sid}]
        /\ UNCHANGED <<shard_of, set_max_intset_entries, last>>
  IN /\ ~aborted
     /\ Runnable("smove", sid)
     /\ tx["smove"].pc = "mutate"
     /\ \/ ~MoverDcheck(ShardArgsInShard(TxArgs, sid)) /\ TxDie
        \/ Mutated(OpMutate(db, ShardArgsInShard(TxArgs, sid), TxSrc, TxMember))

\* NoOpCb on shard sid, in the concluding hop
TxNoOpCb(sid) ==
  /\ ~aborted
  /\ Runnable("smove", sid)
  /\ tx["smove"].pc = "noop"
  /\ txq' = [txq EXCEPT ![sid] = Tail(@)]
  /\ tx' = [tx EXCEPT !["smove"].ran = @ \cup {sid}]
  /\ UNCHANGED <<db, shard_of, set_max_intset_entries, aborted, last>>

\* SMove replies once the concluding hop has run on every shard
TxSMoveReply ==
  /\ ~aborted
  /\ tx["smove"].pc \in {"mutate", "noop"}
  /\ HopDone("smove")
  /\ tx' = [tx EXCEPT !["smove"].pc = "done"]
  /\ UNCHANGED <<db, shard_of, set_max_intset_entries, aborted, last, txq>>

\* the callback of SUnion on shard sid
TxOpUnion(sid) ==
  /\ ~aborted
  /\ Runnable("sunion", sid)
  /\ tx["sunion"].pc = "read"
  /\ tx' = [tx EXCEPT !["sunion"].result_set[sid] =
                        OpUnion(db, ShardArgsInShard(TxArgs, sid)),
                      !["sunion"].ran = @ \cup {sid}]
  /\ txq' = [txq EXCEPT ![sid] = Tail(@)]
  /\ UNCHANGED <<db, shard_of, set_max_intset_entries, aborted, last>>

\* SUnion combines once its hop has run on every shard
TxSUnionReply ==
  /\ ~aborted
  /\ tx["sunion"].pc = "read"
  /\ HopDone("sunion")
  /\ tx' = [tx EXCEPT !["sunion"].res = UnionResultVec(tx["sunion"].result_set),
                      !["sunion"].pc = "done"]
  /\ UNCHANGED <<db, shard_of, set_max_intset_entries, aborted, last, txq>>

\* the callback of SInter on shard sid
TxOpInter(sid) ==
  LET Inter(r) ==
        \/ r.dfatal /\ TxDie
        \/ /\ tx' = [tx EXCEPT !["sinter"].result_set[sid] = r.result,
                               !["sinter"].ran = @ \cup {sid}]
           /\ txq' = [txq EXCEPT ![sid] = Tail(@)]
           /\ UNCHANGED <<db, shard_of, set_max_intset_entries, aborted, last>>
  IN /\ ~aborted
     /\ Runnable("sinter", sid)
     /\ tx["sinter"].pc = "read"
     /\ Inter(OpInter(db, ShardArgsInShard(TxArgs, sid), FALSE))

\* SInter combines once its hop has run on every shard; unique_shard_cnt()
TxSInterReply ==
  /\ ~aborted
  /\ tx["sinter"].pc = "read"
  /\ HopDone("sinter")
  /\ tx' = [tx EXCEPT !["sinter"].res =
                        InterResultVec(tx["sinter"].result_set,
                                       Cardinality(ActiveShards(TxArgs))),
                      !["sinter"].pc = "done"]
  /\ UNCHANGED <<db, shard_of, set_max_intset_entries, aborted, last, txq>>

(***************************************************************************)
(* Writers on the same queues.  TxWSpec runs two SMOVE TxSrc TxDest        *)
(* TxMember, SREM TxSrc TxMember, SPOP TxSrc, SADD TxDest TxMember and     *)
(* SUNIONSTORE TxSrc TxDest, each scheduled at any time.                   *)
(***************************************************************************)
TxMovers == {"smove", "smove2"}
TxWNames == TxMovers \cup {"srem", "spop", "sadd", "store"}

\* the key arguments of each transaction
TxWArgs(t) ==
  IF t \in {"srem", "spop"} THEN <<TxSrc>>
  ELSE IF t = "sadd" THEN <<TxDest>>
  ELSE TxArgs

\* Schedule / ScheduleSingleHop
TxWSchedule(t) ==
  /\ ~aborted
  /\ tx[t].pc = "idle"
  /\ txq' = [sid \in Shards |->
               IF sid \in ActiveShards(TxWArgs(t)) THEN Append(txq[sid], t) ELSE txq[sid]]
  /\ tx' = [tx EXCEPT ![t].pc = IF t \in TxMovers THEN "find"
                                ELSE IF t = "store" THEN "union" ELSE "run"]
  /\ UNCHANGED <<db, shard_of, set_max_intset_entries, aborted, last>>

\* the single hop of SREM, SPOP and SADD on the shard of their key
TxWRun(t, sid) ==
  LET Ran(r) ==
        /\ db' = r.db
        /\ txq' = [txq EXCEPT ![sid] = Tail(@)]
        /\ tx' = [tx EXCEPT ![t].pc = "done", ![t].ran = @ \cup {sid}]
        /\ UNCHANGED <<shard_of, set_max_intset_entries, aborted, last>>
  IN /\ ~aborted
     /\ Runnable(t, sid)
     /\ tx[t].pc = "run"
     /\ \/ t = "srem" /\ Ran(OpRem(db, TxSrc, <<TxMember>>))
        \/ t = "spop" /\ \E order \in IterOrders(db[TxSrc]) : Ran(OpPop(db, TxSrc, 1, order))
        \/ t = "sadd" /\ Ran(OpAdd(db, TxDest, <<TxMember>>, FALSE))

\* Mover::OpFind of mover t on shard sid
TxWOpFind(t, sid) ==
  /\ ~aborted
  /\ Runnable(t, sid)
  /\ tx[t].pc = "find"
  /\ \/ ~MoverDcheck(ShardArgsInShard(TxArgs, sid)) /\ TxDie
     \/ /\ tx' = [tx EXCEPT ![t].found_ =
                              OpFind(db, ShardArgsInShard(TxArgs, sid), TxSrc, TxMember, @),
                            ![t].ran = @ \cup {sid}]
        /\ UNCHANGED <<db, shard_of, set_max_intset_entries, aborted, last, txq>>

\* Mover::Commit of mover t, after the hop of Mover::Find
TxWCommit(t) ==
  LET Decided(c) ==
        tx' = [tx EXCEPT ![t].commit = c,
                         ![t].pc = IF c.noop THEN "noop" ELSE "mutate",
                         ![t].ran = {}]
  IN /\ ~aborted
     /\ tx[t].pc = "find"
     /\ HopDone(t)
     /\ Decided(Commit(tx[t].found_, TxSrc, TxDest))
     /\ UNCHANGED <<db, shard_of, set_max_intset_entries, aborted, last, txq>>

\* the concluding hop of mover t on shard sid: Mover::OpMutate, or NoOpCb
TxWConclude(t, sid) ==
  LET Mutated(m) ==
        /\ db' = m.db
        /\ aborted' = ~m.check
        /\ txq' = [txq EXCEPT ![sid] = Tail(@)]
        /\ tx' = [tx EXCEPT ![t].ran = @ \cup {sid}]
        /\ UNCHANGED <<shard_of, set_max_intset_entries, last>>
  IN /\ ~aborted
     /\ Runnable(t, sid)
     /\ \/ /\ tx[t].pc = "mutate"
           /\ \/ ~MoverDcheck(ShardArgsInShard(TxArgs, sid)) /\ TxDie
              \/ Mutated(OpMutate(db, ShardArgsInShard(TxArgs, sid), TxSrc, TxMember))
        \/ /\ tx[t].pc = "noop"
           /\ Mutated([db |-> db, check |-> TRUE])

\* union_cb writing the first slot of result_set on every shard
TxWUnionCbFirstSlot(sid) ==
  /\ ~aborted
  /\ Runnable("store", sid)
  /\ tx["store"].pc = "union"
  /\ tx' = [tx EXCEPT !["store"].result_set[0] = UnionCb(db, TxArgs, TxSrc, sid),
                      !["store"].ran = @ \cup {sid}]
  /\ UNCHANGED <<db, shard_of, set_max_intset_entries, aborted, last, txq>>

\* union_cb of SUNIONSTORE TxSrc TxDest on shard sid
TxWUnionCb(sid) ==
  /\ ~aborted
  /\ Runnable("store", sid)
  /\ tx["store"].pc = "union"
  /\ tx' = [tx EXCEPT !["store"].result_set[sid] = UnionCb(db, TxArgs, TxSrc, sid),
                      !["store"].ran = @ \cup {sid}]
  /\ UNCHANGED <<db, shard_of, set_max_intset_entries, aborted, last, txq>>

\* SUnionStore between its hops: UnionResultVec, then store_cb or NoOpCb
TxWCombine ==
  LET Combined(r) ==
        tx' = [tx EXCEPT !["store"].res = r,
                         !["store"].pc = IF r.status = OK THEN "store" ELSE "noop",
                         !["store"].ran = {}]
  IN /\ ~aborted
     /\ tx["store"].pc = "union"
     /\ HopDone("store")
     /\ Combined(UnionResultVec(tx["store"].result_set))
     /\ UNCHANGED <<db, shard_of, set_max_intset_entries, aborted, last, txq>>

\* the concluding hop of SUnionStore on shard sid: store_cb, or NoOpCb
TxWStoreCb(sid) ==
  /\ ~aborted
  /\ Runnable("store", sid)
  /\ tx["store"].pc \in {"store", "noop"}
  /\ IF tx["store"].pc = "store" /\ sid = shard_of[TxSrc]
       THEN \E result \in Orders(tx["store"].res.value) :
              db' = OpAdd(db, TxSrc, result, TRUE).db
       ELSE db' = db
  /\ txq' = [txq EXCEPT ![sid] = Tail(@)]
  /\ tx' = [tx EXCEPT !["store"].ran = @ \cup {sid}]
  /\ UNCHANGED <<shard_of, set_max_intset_entries, aborted, last>>

(***************************************************************************)
(* Spec: every writing command, run to its end in one step, on two keys    *)
(* that share a shard or not.                                              *)
(***************************************************************************)
ValLists == UNION {[1..n -> Vals] : n \in 1..MaxVals}
\* one source key, or two
KeyLists == {<<k>> : k \in Keys} \cup {<<k1, k2>> : k1 \in Keys, k2 \in Keys}
\* SPOP key, SPOP key 1, SPOP key MaxCount
PopArgs == {NoCount, 1, MaxCount}
\* every count, no count, and a count that does not parse
CountArgs == (0..MaxCount) \cup {NoCount, BadCount}

\* the key-to-shard assignments tried: the two keys on one shard, and on two
Placements == {[k \in Keys |-> 0], [k \in Keys |-> IF k = "a" THEN 0 ELSE 1]}

NoTxq == [sid \in Shards |-> <<>>]
NoTx == [t \in TxNames |-> TxIdle]

Init ==
  /\ db \in [Keys -> {NoObj, StringObj}]
  /\ shard_of \in Placements
  /\ set_max_intset_entries = IntsetCfg
  /\ aborted = FALSE
  /\ last = NoLast
  /\ txq = NoTxq
  /\ tx = NoTx

Next ==
  \/ \E key \in Keys, vals \in ValLists : SAdd(key, vals)
  \/ \E key \in Keys, vals \in ValLists : SRem(key, vals)
  \/ \E key \in Keys, arg \in PopArgs : SPop(key, arg)
  \/ \E src \in Keys, dest \in Keys, member \in Vals : SMove(src, dest, member)
  \/ \E dest \in Keys, srcs \in KeyLists : SUnionStore(dest, srcs)
  \/ \E dest \in Keys, srcs \in KeyLists : SInterStore(dest, srcs)
  \/ \E dest \in Keys, srcs \in KeyLists : SDiffStore(dest, srcs)

Spec == Init /\ [][Next]_vars

(***************************************************************************)
(* KeySpec: SADD, SREM and SPOP on one key, with longer member lists, a    *)
(* fourth member and a larger set_max_intset_entries.                      *)
(***************************************************************************)
TheKey == "a"
KeyValLists == UNION {[1..n -> KeyVals] : n \in 1..MaxKeyVals}

KeyInit ==
  /\ db \in {[k \in Keys |-> IF k = TheKey THEN co ELSE NoObj] : co \in {NoObj, StringObj}}
  /\ shard_of = [k \in Keys |-> 0]
  /\ set_max_intset_entries = KeyIntsetCfg
  /\ aborted = FALSE
  /\ last = NoLast
  /\ txq = NoTxq
  /\ tx = NoTx

KeyNext ==
  \/ \E vals \in KeyValLists : SAdd(TheKey, vals)
  \/ \E vals \in KeyValLists : SRem(TheKey, vals)
  \/ \E arg \in CountArgs : SPop(TheKey, arg)

KeySpec == KeyInit /\ [][KeyNext]_vars

(***************************************************************************)
(* UpgradeSpec: SADD and SREM of up to MaxKeyVals members and SCARD on one *)
(* key, with the intset limit of Spec.                                     *)
(***************************************************************************)
UpgradeInit ==
  /\ db = [k \in Keys |-> NoObj]
  /\ shard_of = [k \in Keys |-> 0]
  /\ set_max_intset_entries = IntsetCfg
  /\ aborted = FALSE
  /\ last = NoLast
  /\ txq = NoTxq
  /\ tx = NoTx

UpgradeNext ==
  \/ \E vals \in KeyValLists : SAdd(TheKey, vals)
  \/ \E vals \in KeyValLists : SRem(TheKey, vals)
  \/ SCard(TheKey)

UpgradeSpec == UpgradeInit /\ [][UpgradeNext]_vars

(***************************************************************************)
(* ReadSpec: SUNION, SINTER and SDIFF of up to MaxKeys key arguments, on   *)
(* the sets SADD and SREM build.                                           *)
(***************************************************************************)
ReadKeyLists == UNION {[1..n -> Keys] : n \in 1..MaxKeys}

ReadNext ==
  \/ \E key \in Keys, vals \in ValLists : SAdd(key, vals)
  \/ \E key \in Keys, vals \in ValLists : SRem(key, vals)
  \/ \E args \in ReadKeyLists : SUnion(args)
  \/ \E args \in ReadKeyLists : SInter(args)
  \/ \E args \in ReadKeyLists : SDiff(args)

ReadSpec == Init /\ [][ReadNext]_vars

(***************************************************************************)
(* CmdSpec: the commands on one key and SMOVE, writing and reading.        *)
(***************************************************************************)
CmdNext ==
  \/ \E key \in Keys, vals \in ValLists : SAdd(key, vals)
  \/ \E key \in Keys, vals \in ValLists : SRem(key, vals)
  \/ \E key \in Keys, arg \in PopArgs : SPop(key, arg)
  \/ \E src \in Keys, dest \in Keys, member \in Vals : SMove(src, dest, member)
  \/ \E key \in Keys : SCard(key)
  \/ \E key \in Keys, val \in Vals : SIsMember(key, val)
  \/ \E key \in Keys : SMembers(key)

CmdSpec == Init /\ [][CmdNext]_vars

(***************************************************************************)
(* TxSpec: SMOVE hop by hop, with SUNION and SINTER of the same two keys   *)
(* scheduled at any time.  TxMember is in TxSrc and not in TxDest at first.*)
(***************************************************************************)
TxSrcObjs == {InitRobj(kEncodingIntSet, <<2>>, {}), InitRobj(kEncodingStrMap, <<>>, {S2, S01})}
TxDestObjs == {NoObj, StringObj, InitRobj(kEncodingIntSet, <<10>>, {}),
               InitRobj(kEncodingStrMap, <<>>, {S01})}

TxInit ==
  /\ db \in {[k \in Keys |-> IF k = TxSrc THEN s ELSE d] : s \in TxSrcObjs, d \in TxDestObjs}
  /\ shard_of \in Placements
  /\ set_max_intset_entries = IntsetCfg
  /\ aborted = FALSE
  /\ last = NoLast
  /\ txq = NoTxq
  /\ tx = NoTx

TxNext ==
  \/ \E t \in TxNames : TxSchedule(t)
  \/ \E sid \in Shards : TxOpFind(sid)
  \/ TxCommit
  \/ \E sid \in Shards : TxOpMutate(sid)
  \/ \E sid \in Shards : TxNoOpCb(sid)
  \/ TxSMoveReply
  \/ \E sid \in Shards : TxOpUnion(sid)
  \/ TxSUnionReply
  \/ \E sid \in Shards : TxOpInter(sid)
  \/ TxSInterReply

TxSpec == TxInit /\ [][TxNext]_vars

(***************************************************************************)
(* TxWSpec: the two SMOVE hop by hop, with the other writers of TxSrc and  *)
(* TxDest scheduled at any time.                                           *)
(***************************************************************************)
TxWInit ==
  /\ db \in {[k \in Keys |-> IF k = TxSrc THEN s ELSE d] : s \in TxSrcObjs, d \in TxDestObjs}
  /\ shard_of \in Placements
  /\ set_max_intset_entries = IntsetCfg
  /\ aborted = FALSE
  /\ last = NoLast
  /\ txq = NoTxq
  /\ tx = [t \in TxWNames |-> TxIdle]

TxWNext ==
  \/ \E t \in TxWNames : TxWSchedule(t)
  \/ \E t \in TxWNames, sid \in Shards : TxWRun(t, sid)
  \/ \E t \in TxMovers, sid \in Shards : TxWOpFind(t, sid)
  \/ \E t \in TxMovers : TxWCommit(t)
  \/ \E t \in TxMovers, sid \in Shards : TxWConclude(t, sid)
  \/ \E sid \in Shards : TxWUnionCb(sid)
  \/ TxWCombine
  \/ \E sid \in Shards : TxWStoreCb(sid)

TxWSpec == TxWInit /\ [][TxWNext]_vars

(***************************************************************************)
(* Properties.                                                             *)
(***************************************************************************)
IsSet(co) == co.type = OBJ_SET
IsIntSet(co) == co.type = OBJ_SET /\ co.enc = kEncodingIntSet
IsStrMap(co) == co.type = OBJ_SET /\ co.enc = kEncodingStrMap

\* every member is the canonical decimal form of an integer
AllInts(co) == \A m \in Members(co) : string2ll(m).ok

\* min(max_intset_entries, 65536)
IntsetLimit == IF set_max_intset_entries >= kMaxIntsetClamp THEN kMaxIntsetClamp
               ELSE set_max_intset_entries

WithinLimit(co) == Cardinality(Members(co)) <= IntsetLimit

StoreCmds == {"SUNIONSTORE", "SINTERSTORE", "SDIFFSTORE"}
MultiHopCmds == StoreCmds \cup {"SMOVE"}

Min(a, b) == IF a <= b THEN a ELSE b

\* the integer a member string stands for
IntOf(m) == string2ll(m).v

(***************************************************************************)
(* C1 (TxSpec).                                                            *)
(***************************************************************************)
TxApart == shard_of[TxSrc] # shard_of[TxDest]

\* what the SUNION that has replied saw of TxSrc and of TxDest
SawInSrc == TxMember \in tx["sunion"].result_set[shard_of[TxSrc]].value
SawInDest == TxMember \in tx["sunion"].result_set[shard_of[TxDest]].value

\* C1: SMOVE is atomic for the transactions that read src and dest.  TxMember is in
\* TxSrc and not in TxDest at first; a SUNION TxSrc TxDest that has replied has seen
\* TxMember (it is never missing from both keys) and, when the keys are on two
\* shards, has seen it in exactly one of its two per-shard results; a SINTER TxSrc
\* TxDest that has replied has not seen TxMember (it is never in both keys).
C1_SMoveAtomic ==
  /\ (tx["sunion"].pc = "done" /\ tx["sunion"].res.status = OK) =>
       /\ TxMember \in tx["sunion"].res.value
       /\ TxApart => (SawInSrc # SawInDest)
  /\ (tx["sinter"].pc = "done" /\ tx["sinter"].res.status = OK) =>
       TxMember \notin tx["sinter"].res.value

\* SMOVE has moved TxMember between two shards, and a SUNION that has replied found
\* it in TxDest only
C1_Witness ==
  /\ TxApart
  /\ tx["smove"].pc = "done"
  /\ tx["smove"].commit.value = 1
  /\ tx["sunion"].pc = "done"
  /\ tx["sunion"].res.status = OK
  /\ SawInDest
  /\ ~SawInSrc
  /\ tx["sinter"].pc = "done"

(***************************************************************************)
(* C2, C3 (Spec).                                                          *)
(***************************************************************************)
SMoveOutcome(src, dest, member) ==
  IF db[src].type = OBJ_STRING \/ db[dest].type = OBJ_STRING
    THEN last'.reply = SendError(WRONG_TYPE) /\ db' = db
  ELSE IF member \notin Members(db[src])
    THEN last'.reply = SendLong(0) /\ db' = db
  ELSE IF src = dest
    THEN last'.reply = SendLong(1) /\ db' = db
  ELSE /\ last'.reply = SendLong(1)
       /\ Members(db'[src]) = Members(db[src]) \ {member}
       /\ IsSet(db'[src]) <=> Members(db[src]) # {member}
       /\ Members(db'[dest]) = Members(db[dest]) \cup {member}
       /\ IsSet(db'[dest])
       /\ \A k \in Keys \ {src, dest} : db'[k] = db[k]

\* C2: the outcome of SMOVE src dest member.  WRONGTYPE and no change if src or dest
\* holds a non-set; else 0 and no change if member is not in src; else 1, and for
\* src /= dest member has left src (src deleted if that emptied it) and is in dest,
\* all other members being as before; for src = dest nothing changes.
C2_SMoveOutcome ==
  [][last'.cmd = "SMOVE" => SMoveOutcome(last'.keys[1], last'.keys[2], last'.vals[1])]_vars

\* SMOVE of a member of src, with src and dest on one shard, has ended the process
\* in the Find hop: no reply, and member still in src
C2_Witness ==
  /\ aborted
  /\ last.cmd = "SMOVE"
  /\ last.keys[1] # last.keys[2]
  /\ last.reply = NoReply
  /\ last.vals[1] \in Members(db[last.keys[1]])
  /\ IsSet(db[last.keys[2]])

\* C3: every run of a multi-hop command calls Schedule, then Execute once not
\* concluding, then Execute once concluding, on every path, and nothing more.
C3_MultiHopConcludes ==
  last.cmd \in MultiHopCmds =>
    /\ Len(last.calls) = 3
    /\ last.calls[1] = CallSchedule
    /\ last.calls[2].call = "Execute" /\ ~last.calls[2].concluding
    /\ last.calls[3].call = "Execute" /\ last.calls[3].concluding

\* SINTERSTORE has ended the process in inter_cb, after Schedule and the first Execute
C3_Witness ==
  /\ aborted
  /\ last.cmd = "SINTERSTORE"
  /\ last.calls = <<CallSchedule, CallExecute("inter_cb", FALSE)>>

(***************************************************************************)
(* C4, C5, C10 (KeySpec): a step of one command, db before and db' after.  *)
(***************************************************************************)
SAddStep(key, vals) ==
  /\ Members(db'[key]) = Members(db[key]) \cup Range(vals)
  /\ last'.reply = SendLong(Cardinality(Range(vals) \ Members(db[key])))

\* C4: SADD key v1..vn on an absent key or a set leaves members(key) = the members
\* before plus {v1..vn} and replies the number of distinct vi that were not members,
\* in either encoding, with or without an upgrade during the call.
C4_SAddUnionCount ==
  [][(last'.cmd = "SADD" /\ db[last'.keys[1]].type # OBJ_STRING) =>
       SAddStep(last'.keys[1], last'.vals)]_vars

\* SADD of two values, one of them new, has left three integers in a FlatSet (the
\* intset limit of KeySpec is two)
C4_Witness ==
  /\ last.cmd = "SADD"
  /\ Len(last.vals) = 2
  /\ last.reply = SendLong(1)
  /\ IsStrMap(db[TheKey])
  /\ AllInts(db[TheKey])
  /\ Cardinality(Members(db[TheKey])) = 3

SRemStep(key, vals) ==
  /\ Members(db'[key]) = Members(db[key]) \ Range(vals)
  /\ last'.reply = SendLong(Cardinality(Range(vals) \cap Members(db[key])))
  /\ db'[key].type = OBJ_NONE <=> Members(db[key]) \ Range(vals) = {}
  /\ (IsIntSet(db[key]) /\ \A i \in 1..Len(vals) : ~string2ll(vals[i]).ok) =>
       (db' = db /\ last'.reply = SendLong(0))
  /\ db[key].type = OBJ_NONE => (db' = db /\ last'.reply = SendLong(0))

\* C5: SREM key v1..vn on a set leaves members(key) = the members before minus
\* {v1..vn} and replies the number of distinct vi that were members; a vi that is no
\* integer counts zero on an intset and changes nothing; the key is deleted exactly
\* when the set became empty; on an absent key the reply is 0 and nothing is created.
C5_SRemDifferenceCount ==
  [][(last'.cmd = "SREM" /\ db[last'.keys[1]].type # OBJ_STRING) =>
       SRemStep(last'.keys[1], last'.vals)]_vars

\* SREM of an integer and of "01" has removed one member of an intset, which is left
\* with one member
C5_Witness ==
  /\ last.cmd = "SREM"
  /\ Len(last.vals) = 2
  /\ S01 \in Range(last.vals)
  /\ last.reply = SendLong(1)
  /\ IsIntSet(db[TheKey])
  /\ Size(db[TheKey]) = 1

\* count: the count OpPop ran with; ret: the strings replied
SPopStep(key, count, ret) ==
  IF db[key].type = OBJ_NONE
    THEN last'.status = KEY_NOTFOUND /\ db' = db
    ELSE /\ last'.status = OK
         /\ Len(ret) = Min(count, Cardinality(Members(db[key])))
         /\ Cardinality(Range(ret)) = Len(ret)
         /\ Range(ret) \subseteq Members(db[key])
         /\ Members(db'[key]) = Members(db[key]) \ Range(ret)
         /\ count >= Cardinality(Members(db[key])) => db'[key].type = OBJ_NONE
         /\ count < Cardinality(Members(db[key])) => IsSet(db'[key])
         /\ count = 0 => db' = db
         /\ (IsIntSet(db[key]) /\ count < Cardinality(Members(db[key]))) =>
              \A r \in Range(ret), m \in Members(db[key]) \ Range(ret) : IntOf(r) > IntOf(m)

\* C10: SPOP key count on a set of n members replies min(count, n) distinct members
\* and leaves members(key) = the members before minus the replied ones; the key is
\* deleted if count >= n; nothing changes if count = 0; a partial pop of an intset
\* replies its count largest integers; on an absent key it is KEY_NOTFOUND and
\* nothing changes.  (SPOP key is SPOP with count 1.)
C10_SPopRemovesReplied ==
  [][(last'.cmd = "SPOP" /\ last'.count # BadCount /\ db[last'.keys[1]].type # OBJ_STRING) =>
       SPopStep(last'.keys[1], IF last'.count = NoCount THEN 1 ELSE last'.count,
                last'.reply.arr)]_vars

\* SPOP key 1 has replied 10, the larger integer of the intset {2, 10}, and left 2
C10_Witness ==
  /\ last.cmd = "SPOP"
  /\ last.count = 1
  /\ last.reply.arr = <<S10>>
  /\ IsIntSet(db[TheKey])
  /\ Members(db[TheKey]) = {S2}

(***************************************************************************)
(* C6 .. C9 (Spec).                                                        *)
(***************************************************************************)
\* C6: no key holds a set with no member.
C6_NoEmptySet == \A k \in Keys : IsSet(db[k]) => Members(db[k]) # {} /\ Size(db[k]) > 0

\* SREM has removed the last member of a set and deleted the key
C6_Witness ==
  /\ last.cmd = "SREM"
  /\ last.reply = SendLong(1)
  /\ last.hooks = <<"PreUpdate", "Del">>
  /\ db[last.keys[1]].type = OBJ_NONE

\* C7 as the specification words it: a set is intset-encoded if and only if its
\* members are all integers and no more than the limit.
C7_EncodingIff ==
  \A k \in Keys : IsSet(db[k]) => (IsIntSet(db[k]) <=> (AllInts(db[k]) /\ WithinLimit(db[k])))

\* the step installs a value for k: k held no FlatSet, or a *STORE wrote k
Installs(k) ==
  \/ ~IsStrMap(db[k])
  \/ last'.cmd \in StoreCmds /\ last'.keys[1] = k /\ last'.reply.kind = "long"

\* C7, amended: an intset-encoded set holds integers only, no more than the limit;
\* and a FlatSet that a step installs (for a key that held no FlatSet, or as the
\* result of a *STORE) has a member that is no integer, or more members than the
\* limit.  (A FlatSet that shrinks keeps its encoding.)
C7_EncodingAtInstall ==
  [][\A k \in Keys :
       /\ IsIntSet(db'[k]) => (AllInts(db'[k]) /\ WithinLimit(db'[k]))
       /\ (IsStrMap(db'[k]) /\ Installs(k)) => ~(AllInts(db'[k]) /\ WithinLimit(db'[k]))]_vars

\* a FlatSet of integers within the limit: SREM has shrunk a FlatSet
C7_Witness ==
  /\ last.cmd = "SREM"
  /\ last.reply = SendLong(1)
  /\ IsStrMap(db[last.keys[1]])
  /\ AllInts(db[last.keys[1]])
  /\ WithinLimit(db[last.keys[1]])

C9_NeverDowngrades ==
  [][\A k \in Keys : (IsStrMap(db[k]) /\ IsSet(db'[k])) => IsStrMap(db'[k])]_vars

\* C9, amended: a FlatSet-encoded key stays FlatSet-encoded under SADD, SREM, SPOP
\* and SMOVE until it is deleted; a *STORE that writes the key discards its value and
\* chooses the encoding anew.
C9_NeverDowngradesButStore ==
  [][\A k \in Keys :
       (IsStrMap(db[k]) /\ IsSet(db'[k]) /\ ~(last'.cmd \in StoreCmds /\ last'.keys[1] = k))
         => IsStrMap(db'[k])]_vars

\* SADD of an integer to a FlatSet of integers that SREM had shrunk to the limit
C9_Witness ==
  /\ last.cmd = "SADD"
  /\ last.reply = SendLong(0)
  /\ IsStrMap(db[last.keys[1]])
  /\ AllInts(db[last.keys[1]])
  /\ WithinLimit(db[last.keys[1]])

(***************************************************************************)
(* C11 .. C14 (ReadSpec).  A reading command leaves db as it is, so the    *)
(* state after it shows both its arguments' values and its reply.          *)
(***************************************************************************)
NoNonSet(args) == \A i \in 1..Len(args) : db[args[i]].type # OBJ_STRING

UnionOf(args) == UNION {Members(db[args[i]]) : i \in 1..Len(args)}
InterOf(args) == {m \in Members(db[args[1]]) : \A i \in 1..Len(args) : m \in Members(db[args[i]])}
DiffOf(args) == Members(db[args[1]]) \ UNION {Members(db[args[i]]) : i \in 2..Len(args)}

\* the reply is an array of distinct strings, the members of S
RepliesSet(S) ==
  /\ last.reply.kind = "array"
  /\ Range(last.reply.arr) = S
  /\ Len(last.reply.arr) = Cardinality(S)

\* C11: SUNION k1..kn, no ki holding a non-set, replies the union of the members of
\* the ki that exist, without duplicates, wherever the keys are placed and in
\* whatever order or repetition they are given.
C11_SUnionIsUnion ==
  (last.cmd = "SUNION" /\ NoNonSet(last.keys)) => RepliesSet(UnionOf(last.keys))

\* SUNION b a, the keys on two shards and sharing a member, has replied three
\* members
C11_Witness ==
  /\ last.cmd = "SUNION"
  /\ last.keys = <<"b", "a">>
  /\ shard_of["a"] # shard_of["b"]
  /\ Members(db["a"]) \cap Members(db["b"]) # {}
  /\ Len(last.reply.arr) = 3

\* C12: SINTER k1..kn, no ki holding a non-set, replies the members that are in every
\* ki (none if a ki is absent), wherever the keys are placed, two keys on one shard
\* and a repeated key included.
C12_SInterIsIntersection ==
  (last.cmd = "SINTER" /\ NoNonSet(last.keys)) => RepliesSet(InterOf(last.keys))

\* SINTER a b, the two sets on one shard and sharing a member, has replied no member
C12_Witness ==
  /\ last.cmd = "SINTER"
  /\ last.keys = <<"a", "b">>
  /\ shard_of["a"] = shard_of["b"]
  /\ Members(db["a"]) \cap Members(db["b"]) # {}
  /\ last.reply = SendStringArr(<<>>)

\* C13: SDIFF src k1..kn, no argument holding a non-set, replies members(src) minus
\* the members of the ki (none if src is absent), wherever the keys are placed.
C13_SDiffIsDifference ==
  (last.cmd = "SDIFF" /\ NoNonSet(last.keys)) => RepliesSet(DiffOf(last.keys))

\* SDIFF a b has replied no member although a has a member that b has not
C13_Witness ==
  /\ last.cmd = "SDIFF"
  /\ last.keys = <<"a", "b">>
  /\ Members(db["a"]) \ Members(db["b"]) # {}
  /\ last.reply = SendStringArr(<<>>)

\* C14: the reply of SDIFF a b holds only members of a and no member of b, wherever
\* a and b are placed.
C14_SDiffWithinSrc ==
  (last.cmd = "SDIFF" /\ Len(last.keys) = 2 /\ NoNonSet(last.keys)) =>
    /\ last.reply.kind = "array"
    /\ Range(last.reply.arr) \subseteq Members(db[last.keys[1]])
    /\ Range(last.reply.arr) \cap Members(db[last.keys[2]]) = {}

\* SDIFF a b has replied, a and b two sets that share a member, a with a member of
\* its own
C14_Witness ==
  /\ last.cmd = "SDIFF"
  /\ last.keys = <<"a", "b">>
  /\ IsSet(db["a"]) /\ IsSet(db["b"])
  /\ Members(db["a"]) \cap Members(db["b"]) # {}
  /\ Members(db["a"]) \ Members(db["b"]) # {}
  /\ last.reply.kind = "array"

(***************************************************************************)
(* C15, C17 (Spec): a step of a *STORE command, db before and db' after.   *)
(***************************************************************************)
\* S: the union of the members the source keys have before the command
SUnionStoreStep(dest, S) ==
  /\ Members(db'[dest]) = S
  /\ last'.reply = SendLong(Cardinality(S))
  /\ \A k \in Keys \ {dest} : db'[k] = db[k]
  /\ S = {} => db'[dest].type = OBJ_NONE
  /\ S # {} => IsSet(db'[dest])

\* C15: a SUNIONSTORE dest k1..kn that replies no error leaves members(dest) = the
\* union of the members k1..kn had before it (dest's own only if dest is a ki, and
\* whatever dest held before), replies the cardinality of that union, changes no
\* other key, and leaves dest absent, with the reply 0, if the union is empty.
C15_SUnionStoreStoresUnion ==
  [][(last'.cmd = "SUNIONSTORE" /\ last'.reply.kind # "error") =>
       SUnionStoreStep(last'.keys[1], UnionOf(Tail(last'.keys)))]_vars

\* SUNIONSTORE a a b, a and b on two shards, has stored three members
C15_Witness ==
  /\ last.cmd = "SUNIONSTORE"
  /\ last.keys = <<"a", "a", "b">>
  /\ shard_of["a"] # shard_of["b"]
  /\ last.reply = SendLong(3)
  /\ IsStrMap(db["a"])

SomeSourceNonSet(args) == \E i \in 2..Len(args) : db[args[i]].type = OBJ_STRING

\* C17: a SUNIONSTORE, SINTERSTORE or SDIFFSTORE with a source key that holds a
\* non-set replies WRONGTYPE, runs the no-op as its second hop and changes no key,
\* wherever the keys are placed.
C17_StoreWrongType ==
  [][(last'.cmd \in StoreCmds /\ SomeSourceNonSet(last'.keys)) =>
       /\ last'.reply = SendError(WRONG_TYPE)
       /\ last'.calls = <<CallSchedule, last'.calls[2], CallExecute("NoOpCb", TRUE)>>
       /\ db' = db]_vars

\* a *STORE command with a source that holds a non-set has replied a number
C17_Witness ==
  /\ last.cmd \in StoreCmds
  /\ \E i \in 2..Len(last.keys) :
       db[last.keys[i]].type = OBJ_STRING /\ last.keys[i] # last.keys[1]
  /\ last.reply.kind = "long"

(***************************************************************************)
(* C16, C18 (CmdSpec).                                                     *)
(***************************************************************************)
SingleKeyCmds == {"SADD", "SREM", "SCARD", "SISMEMBER", "SMEMBERS", "SPOP"}

\* C16: SADD, SREM, SCARD, SISMEMBER, SMEMBERS and SPOP on a key that holds a non-set
\* reply WRONGTYPE and change no key.
C16_SingleKeyWrongType ==
  [][(last'.cmd \in SingleKeyCmds /\ db[last'.keys[1]].type = OBJ_STRING) =>
       (last'.reply = SendError(WRONG_TYPE) /\ db' = db)]_vars

\* SISMEMBER on a key that holds a non-set has replied 0
C16_Witness ==
  /\ last.cmd = "SISMEMBER"
  /\ db[last.keys[1]].type = OBJ_STRING
  /\ last.reply = SendLong(0)

\* the mathematical sets: key -> set of strings
Abs(d) == [k \in Keys |-> Members(d[k])]

\* the abstract sets after the command that last' records, run on the abstract sets A
AbsAfter(A) ==
  IF last'.reply.kind \in {"error", "none"} THEN A
  ELSE IF last'.cmd = "SADD" THEN [A EXCEPT ![last'.keys[1]] = @ \cup Range(last'.vals)]
  ELSE IF last'.cmd = "SREM" THEN [A EXCEPT ![last'.keys[1]] = @ \ Range(last'.vals)]
  ELSE IF last'.cmd = "SPOP" THEN [A EXCEPT ![last'.keys[1]] = @ \ Range(last'.reply.arr)]
  ELSE IF last'.cmd = "SMOVE" /\ last'.reply = SendLong(1)
    THEN [[A EXCEPT ![last'.keys[1]] = @ \ {last'.vals[1]}]
             EXCEPT ![last'.keys[2]] = @ \cup {last'.vals[1]}]
  ELSE A

\* what a reading command replies on the abstract set S of its key
AbsReads(S) ==
  /\ (last'.cmd = "SCARD" /\ last'.reply.kind # "error") =>
       last'.reply = SendLong(Cardinality(S))
  /\ last'.cmd = "SISMEMBER" =>
       last'.reply = SendLong(IF last'.vals[1] \in S THEN 1 ELSE 0)
  /\ (last'.cmd = "SMEMBERS" /\ last'.reply.kind # "error") =>
       /\ last'.reply.kind = "array"
       /\ Range(last'.reply.arr) = S
       /\ Len(last'.reply.arr) = Cardinality(S)

\* C18: the stored sets refine mathematical sets.  Every SADD, SREM, SPOP and SMOVE
\* changes the members of the keys as the same adds and removes change the
\* mathematical sets, in either encoding and across an upgrade; SCARD replies the
\* number of members of the mathematical set (0 for an absent key), SISMEMBER and
\* SMEMBERS agree with it.
C18_RefinesAbstractSet ==
  [][last'.cmd # "" =>
       /\ Abs(db') = AbsAfter(Abs(db))
       /\ AbsReads(Members(db[last'.keys[1]]))]_vars

\* SCARD has replied 2 for a FlatSet of two integers, past the intset limit of one
C18_Witness ==
  /\ last.cmd = "SCARD"
  /\ last.reply = SendLong(2)
  /\ IsStrMap(db[last.keys[1]])
  /\ AllInts(db[last.keys[1]])

(***************************************************************************)
(* C19 (KeySpec).                                                          *)
(***************************************************************************)
\* every PreUpdate in the calls h is directly followed by PostUpdate or Del
PreUpdateMatched(h) ==
  \A i \in 1..Len(h) : h[i] = "PreUpdate" =>
    (i < Len(h) /\ h[i + 1] \in {"PostUpdate", "Del"})

\* the calls h open with PreUpdate and close with PostUpdate or Del
UpdateBracket(h) ==
  /\ Len(h) = 2
  /\ h[1] = "PreUpdate"
  /\ h[2] \in {"PostUpdate", "Del"}

\* C19: an OpAdd, OpRem or OpPop that changes an existing set calls PreUpdate on the
\* entry before and PostUpdate or Del after, and every PreUpdate these operations
\* issue is matched by a PostUpdate or Del, also on the WRONG_TYPE return.
C19_UpdateBracket ==
  [][last'.cmd \in {"SADD", "SREM", "SPOP"} =>
       /\ PreUpdateMatched(last'.hooks)
       /\ (IsSet(db[TheKey]) /\ db'[TheKey] # db[TheKey]) => UpdateBracket(last'.hooks)]_vars

\* SADD on a key holding a string has returned WRONG_TYPE after its PreUpdate
C19_Witness ==
  /\ last.cmd = "SADD"
  /\ last.status = WRONG_TYPE
  /\ last.hooks = <<"PreUpdate">>

(***************************************************************************)
(* C20 (TxWSpec).                                                          *)
(***************************************************************************)
\* mover t has run its find hop on the shard of key k and not yet its concluding hop
Holds(t, k) ==
  \/ tx[t].pc = "find" /\ shard_of[k] \in tx[t].ran
  \/ tx[t].pc \in {"mutate", "noop"} /\ shard_of[k] \notin tx[t].ran

\* C20: in the mutating hop of SMOVE the CHECK_EQ(1u, OpRem(src, member)) never fails,
\* under every interleaving with the SADD, SREM, SPOP, SMOVE and SUNIONSTORE on src
\* and dest: between a mover's find hop and its concluding hop on a key no other
\* transaction changes that key.
C20_MutateRemSucceeds ==
  [][\A t \in TxMovers :
       /\ (tx[t].pc = "mutate" /\ tx'[t].ran # tx[t].ran) => ~aborted'
       /\ \A k \in {TxSrc, TxDest} :
            (Holds(t, k) /\ db'[k] # db[k]) => tx'[t].ran # tx[t].ran]_vars

\* a mover has removed TxMember from TxSrc in its mutating hop while the SREM, the
\* SUNIONSTORE and the other mover, submitted after its find hop began, wait in the
\* queue of TxSrc's shard
C20_Witness ==
  /\ ~aborted
  /\ tx["smove"].pc = "mutate"
  /\ shard_of[TxSrc] \in tx["smove"].ran
  /\ TxMember \notin Members(db[TxSrc])
  /\ txq[shard_of[TxSrc]] = <<"srem", "store", "smove2">>

(***************************************************************************)
(* C21 (Spec).                                                             *)
(***************************************************************************)
\* found_ after the Find hop with src and dest each alone on its shard
FoundApart(src, dest, member) ==
  OpFind(db, <<dest>>, src, member, OpFind(db, <<src>>, src, member, FoundInit))

\* the reply and the keys after SMOVE with src and dest each alone on its shard, for
\* the decision c of Commit
OutcomeApart(c, src, dest, member) ==
  [reply |-> IF c.status # OK THEN SendError(c.status) ELSE SendLong(c.value),
   db |-> IF c.noop THEN db
          ELSE OpMutate(OpMutate(db, <<src>>, src, member).db, <<dest>>, src, member).db]

SMoveAsApart(o) == last'.reply = o.reply /\ db' = o.db

\* C21: SMOVE src dest member, src and dest two keys on one shard: no assertion of
\* Mover::OpFind or Mover::OpMutate fails, the Find hop fills found_[0] and found_[1]
\* as it does for two shards, and the reply and the keys afterwards are those of the
\* same SMOVE with the keys on two shards.
C21_SMoveSameShard ==
  [][(/\ last'.cmd = "SMOVE"
      /\ last'.keys[1] # last'.keys[2]
      /\ shard_of[last'.keys[1]] = shard_of[last'.keys[2]]) =>
       /\ ~aborted'
       /\ FindHop(db, last'.keys, last'.keys[1], last'.vals[1], FoundInit, 0) =
            FoundApart(last'.keys[1], last'.keys[2], last'.vals[1])
       /\ SMoveAsApart(OutcomeApart(Commit(FoundApart(last'.keys[1], last'.keys[2],
                                                      last'.vals[1]),
                                           last'.keys[1], last'.keys[2]),
                                    last'.keys[1], last'.keys[2], last'.vals[1]))]_vars

\* SMOVE a b on one shard has ended the process in Mover::OpFind, after Schedule and
\* the first Execute
C21_Witness ==
  /\ aborted
  /\ last.cmd = "SMOVE"
  /\ last.keys = <<"a", "b">>
  /\ shard_of["a"] = shard_of["b"]
  /\ last.calls = <<CallSchedule, CallExecute("OpFind", FALSE)>>

(***************************************************************************)
(* C22 (TxWSpec).                                                          *)
(***************************************************************************)
FirstHop == {"find", "union", "read"}

\* shard sid runs the callback of t's hop in this step
RunsOn(t, sid) == sid \notin tx[t].ran /\ tx'[t].ran = tx[t].ran \cup {sid}

StoreInterSet(args) ==
  [sid \in Shards |-> IF sid \in ActiveShards(args)
                        THEN InterCb(db, args, args[1], sid).result
                        ELSE ResultSkipped]
StoreInterCnt(args) ==
  Cardinality({sid \in ActiveShards(args) : InterCb(db, args, args[1], sid).ran})

\* the result_set that SInter's cb leaves, and unique_shard_cnt()
ReadInterSet(args) ==
  [sid \in Shards |-> IF sid \in ActiveShards(args)
                        THEN OpInter(db, ShardArgsInShard(args, sid), FALSE).result
                        ELSE ResultSkipped]
ReadInterCnt(args) == Cardinality(ActiveShards(args))

Contributing(rs) == {sid \in Shards : rs[sid].status # SKIPPED}
InEvery(rs) == {s \in Vals : \A sid \in Contributing(rs) : s \in rs[sid].value}

\* required_shard_cnt counts the entries that are not SKIPPED; entries all OK give the
\* strings of every contributing entry; a KEY_NOTFOUND entry gives the empty output
CombinesAs(rs, cnt) ==
  /\ cnt = Cardinality(Contributing(rs))
  /\ (\A sid \in Contributing(rs) : rs[sid].status = OK) =>
       InterResultVec(rs, cnt) = ResultOK(InEvery(rs))
  /\ (\E sid \in Contributing(rs) : rs[sid].status = KEY_NOTFOUND) =>
       InterResultVec(rs, cnt) = ResultOK({})

\* C23: in SINTER and in SINTERSTORE the required_shard_cnt given to InterResultVec
\* is the number of entries of result_set that are not SKIPPED; when every
\* contributing entry is OK InterResultVec yields exactly the strings that are in
\* every contributing entry; when a contributing entry is KEY_NOTFOUND it yields the
\* empty output.
C23_InterCombiner ==
  [][last'.cmd = "SINTERSTORE" =>
       /\ CombinesAs(StoreInterSet(last'.keys), StoreInterCnt(last'.keys))
       /\ CombinesAs(ReadInterSet(Tail(last'.keys)), ReadInterCnt(Tail(last'.keys)))]_vars

\* SINTERSTORE b a b, a a string on the first shard and b absent on the second, has
\* replied WRONGTYPE
C23_Witness ==
  /\ last.cmd = "SINTERSTORE"
  /\ last.keys = <<"b", "a", "b">>
  /\ shard_of["a"] # shard_of["b"]
  /\ db["a"].type = OBJ_STRING
  /\ db["b"].type = OBJ_NONE
  /\ last.reply = SendError(WRONG_TYPE)

(***************************************************************************)
(* C26 (ReadSpec).                                                         *)
(***************************************************************************)
\* the per-shard results with the shard ids of the keys exchanged
Exchanged(rs) == [sid \in Shards |-> rs[(NumShards - 1) - sid]]

\* the reply is that of the combined result r
RepliesResult(r) ==
  IF r.status # OK THEN last.reply = SendError(r.status) ELSE RepliesSet(r.value)

\* C26: the reply of SINTER k1 k2, each key alone on its shard, does not depend on
\* which shard holds which key: it is the reply that the same contents give with the
\* two shard ids exchanged.
C26_InterPlacementFree ==
  (/\ last.cmd = "SINTER"
   /\ Len(last.keys) = 2
   /\ shard_of[last.keys[1]] # shard_of[last.keys[2]]) =>
    RepliesResult(InterResultVec(Exchanged(ReadInterSet(last.keys)),
                                 ReadInterCnt(last.keys)))

\* SINTER a b, a holding a string on the first shard and b absent on the second, has
\* replied WRONGTYPE
C26_Witness ==
  /\ last.cmd = "SINTER"
  /\ last.keys = <<"a", "b">>
  /\ shard_of["a"] # shard_of["b"]
  /\ db["a"].type = OBJ_STRING
  /\ db["b"].type = OBJ_NONE
  /\ last.reply = SendError(WRONG_TYPE)

(***************************************************************************)
(* C24 (UpgradeSpec).                                                      *)
(***************************************************************************)
\* OpAdd works on an intset: the set is one, or the key is new and every value parses
AddsToIntSet(co, vals) == IsIntSet(co) \/ (co.type = OBJ_NONE /\ OpAddIntSet(vals))

\* a value does not parse, or the integers no longer fit the limit
MustUpgrade(co, vals) ==
  \/ \E i \in 1..Len(vals) : ~string2ll(vals[i]).ok
  \/ Cardinality(Members(co) \cup Range(vals)) > IntsetLimit

\* C24: an SADD that, working on an intset, meets a value that is not an integer or
\* exceeds min(max_intset_entries, 65536) leaves a FlatSet holding every member the
\* set had, every integer inserted earlier in the call, the value that caused the
\* upgrade and the values after it, and replies the number of members that are new.
C24_UpgradeInOpAdd ==
  [][(/\ last'.cmd = "SADD"
      /\ AddsToIntSet(db[TheKey], last'.vals)
      /\ MustUpgrade(db[TheKey], last'.vals)) =>
       /\ IsStrMap(db'[TheKey])
       /\ Members(db'[TheKey]) = Members(db[TheKey]) \cup Range(last'.vals)
       /\ last'.reply = SendLong(Cardinality(Range(last'.vals) \ Members(db[TheKey])))]_vars

\* SADD k 2 10 on a new key, the limit being 1, has replied 2 and left a FlatSet of
\* two integers
C24_Witness ==
  /\ last.cmd = "SADD"
  /\ last.vals = <<S2, S10>>
  /\ last.reply = SendLong(2)
  /\ IsStrMap(db[TheKey])
  /\ Members(db[TheKey]) = {S2, S10}
  /\ IntsetLimit = 1

(***************************************************************************)
(* C25 (Spec): a SDIFFSTORE step against the same command run with another *)
(* value under dest.                                                       *)
(***************************************************************************)
\* what dest may hold beforehand
DestPriors == {NoObj, StringObj, InitRobj(kEncodingIntSet, <<2>>, {}),
               InitRobj(kEncodingStrMap, <<>>, {S10, S01})}

\* DiffResultVec after the first hop of SDIFFSTORE args on the keys d
DiffCombined(d, args) ==
  DiffResultVec([sid \in Shards |->
                   IF sid \in ActiveShards(args)
                     THEN DiffCb(d, args, args[1], args[2], sid)
                     ELSE ResultSkipped],
                shard_of[args[2]])

\* the step replies and stores as the combined result r makes it
StoresResult(r, dest) ==
  IF r.status # OK THEN last'.reply = SendError(r.status)
  ELSE /\ last'.reply = SendLong(Cardinality(r.value))
       /\ Members(db'[dest]) = r.value

\* C25: the reply of SDIFFSTORE dest src k1..kn and the members it leaves in dest, dest
\* not being a source, are those of the same command with dest absent, holding any
\* set or holding a non-set beforehand, wherever the keys are placed.
C25_DiffStoreDestFree ==
  [][(/\ last'.cmd = "SDIFFSTORE"
      /\ \A i \in 2..Len(last'.keys) : last'.keys[i] # last'.keys[1]) =>
       \A co \in DestPriors :
         StoresResult(DiffCombined([db EXCEPT ![last'.keys[1]] = co], last'.keys),
                      last'.keys[1])]_vars

\* SDIFFSTORE a b, a holding a string and b a set on the same shard, has replied
\* WRONGTYPE
C25_Witness ==
  /\ last.cmd = "SDIFFSTORE"
  /\ last.keys = <<"a", "b">>
  /\ shard_of["a"] = shard_of["b"]
  /\ db["a"].type = OBJ_STRING
  /\ IsSet(db["b"])
  /\ last.reply = SendError(WRONG_TYPE)

====
